---- MODULE Spec2Model ----
EXTENDS Integers, Sequences, FiniteSets, TLC

(***************************************************************************)
(* nordselect: the server catalog (servers.rs), the filters (filters/),    *)
(* the sorters (sorters.rs) and the ranking pass of the CLI (main.rs).     *)
(*                                                                         *)
(* The specifications share the variables:                                 *)
(*   Spec     a client of the library applying filter / sort / cut and     *)
(*            sorter comparisons to a catalog, in any order;               *)
(*   SpecCli  one run of `sort` of main.rs: cut, probing, sort;            *)
(*   SpecLookup  one lookup of a token in the static tables: region codes  *)
(*            and static filter names;                                     *)
(*   SpecParse  the filter stage of the CLI: parse_filters, apply_filters; *)
(*   SpecBench  one call of the deprecated Servers::benchmark_ping.        *)
(***************************************************************************)

VARIABLES
    servers,        \* Servers.servers: the catalog, a sequence of Server records
    before,         \* the catalog as it was before the last operation
    op,             \* name of the last operation applied to the catalog
    lastFilter,     \* the filter given to the last Servers::filter
    lastSorter,     \* the sorter given to the last Servers::sort / comparison
    cmp,            \* the last Sorter::sort(a, b) call: [a, b, result]
    ops,            \* number of operations the client has applied
    perfect,        \* the Option<Server> returned by perfect_server, if it was the last operation
    status,         \* "running", "panic" once the process was aborted, "exit" after process::exit(1)
    pc,             \* position inside `sort` of main.rs
    s_ping,         \* matches.is_present("single_ping")
    m_ping,         \* matches.is_present("multi_ping")
    matches,        \* matches.value_of("tries") / ("amount"): the texts of --tries and --amount
    tries,          \* the usize parsed from --tries (0 until it is parsed)
    amount,         \* the usize parsed from --amount (0 until it is parsed)
    ping_results,   \* the HashMap being filled by PingSorter::ping_single / ping_multi
    round,          \* number of completed iterations of the loop over 0..tries
    idx,            \* ping_multi: number of servers whose entry has been inserted
    sum,            \* ping_multi: the running sum of the server being measured
    prober,         \* result of the PingSorter constructor: "none", "ok" or "err"
    fault,          \* what the probe primitive refused: "none", "add_host" or "send"
    probeLog,       \* one entry per Ping::send call: the sequence of hosts added to it
    should_sort,    \* the local `should_sort` of `sort` in main.rs
    sortLog,        \* the sorters given to Servers::sort during the pass, in order
    answers,        \* ping_single: per host, how often send returned each latency
    token,          \* the str handed to the last lookup or constructor, as a sequence of characters
    looked,         \* what the lookup returned
    cli_filters,    \* matches.values_of("filter"): the filter tokens of the command line
    cursor,         \* number of tokens the loop of parse_filters has consumed
    parsed_filters, \* the PossibleFilters being filled by parse_filters
    parseLog,       \* per consumed token, the arm of the match that took it
    stderr,         \* what the last eprintln! names: the unknown filter token, or the value not read
    list_args,      \* the --whitelist / --blacklist sources and the state of their reads
    filters_to_apply \* the Vec<Box<dyn Filter>> returned by cli_help::parse_filters

libVars == <<before, op, lastFilter, lastSorter, cmp, ops, perfect>>
cliVars == <<pc, s_ping, m_ping, matches, tries, amount, ping_results, round, idx, sum,
             prober, fault, probeLog, should_sort, sortLog, answers>>
lookupVars == <<token, looked>>
parseVars == <<cli_filters, cursor, parsed_filters, parseLog, stderr, list_args, filters_to_apply>>
stageVars == <<lookupVars, parseVars>>
vars == <<servers, status, libVars, cliVars, stageVars>>

----------------------------------------------------------------------------
(* Bounds of the model. *)

MaxServers == 3      \* longest catalog
MaxFilters == 2      \* longest list of a CombinedFilter
MaxTries == 2        \* largest --tries
MaxAmount == 2       \* largest --amount
MaxOps == 2          \* operations a client applies to one catalog
MaxTokens == 2       \* filter tokens on one command line

----------------------------------------------------------------------------
(* Server records. *)

\* The flags of struct Features, and wireguard_udp: the flag that
\* ProtocolFilter reads for Protocol::WireGuardUdp (filters/protocol.rs)
\* and that struct Features of servers.rs does not declare.
FeatureNames == {"ikev2", "openvpn_udp", "openvpn_tcp", "socks", "proxy", "pptp",
                 "l2tp", "openvpn_xor_udp", "openvpn_xor_tcp", "proxy_cybersec",
                 "proxy_ssl", "proxy_ssl_cybersec", "wireguard_udp"}

\* struct Features: one independent boolean per protocol; `on` is the set of true flags.
Features(on) == [n \in FeatureNames |-> n \in on]

\* struct Server, as From<ApiServer> builds it: ping is None (an Option is
\* the empty sequence or a sequence of one value).  categories is a Vec in
\* the source; only `contains` is used on it.
Server(domain, flag, load, categories, on) ==
    [flag |-> flag, domain |-> domain, load |-> load,
     categories |-> categories, features |-> Features(on), ping |-> <<>>]

\* The records a catalog is drawn from: unique domains, loads with a tie.
ServerPool ==
    { Server("us1", "US", 50, {"Standard", "P2P"}, {"openvpn_tcp", "openvpn_udp"}),
      Server("us2", "US", 10, {"Standard"}, {"openvpn_udp", "openvpn_xor_tcp"}),
      Server("be1", "BE", 5, {"Standard", "Double"}, {"openvpn_tcp", "openvpn_xor_udp"}),
      Server("sg1", "SG", 10, {"P2P"}, {"openvpn_tcp", "pptp", "wireguard_udp"}) }

Domains == {s.domain : s \in ServerPool}

\* Every catalog: a sequence of at most MaxServers records with distinct domains.
Catalogs ==
    UNION { { c \in [1..n -> ServerPool] :
                \A i, j \in 1..n : i # j => c[i].domain # c[j].domain } :
            n \in 0..MaxServers }

DomainsOf(c) == {c[i].domain : i \in 1..Len(c)}

----------------------------------------------------------------------------
(* Filters.  A filter is a record; `kind` names the implementing struct.   *)

NoFilter == [kind |-> "None", country |-> "", countries |-> {}, list |-> {},
             filters |-> <<>>, category |-> "", protocol |-> "",
             min_load |-> 0, max_load |-> 0, load |-> 0]

CountryFilterOf(country) == [NoFilter EXCEPT !.kind = "CountryFilter", !.country = country]
CountriesFilterOf(countries) ==
    [NoFilter EXCEPT !.kind = "CountriesFilter", !.countries = countries]
WhiteListFilterOf(whitelist) == [NoFilter EXCEPT !.kind = "WhiteListFilter", !.list = whitelist]
\* BlackListFilter of filters/list.rs
BlackListFilterOf(blacklist) == [NoFilter EXCEPT !.kind = "BlackListFilter", !.list = blacklist]
\* BlackListFilter of filters/blacklist.rs
BlackListFilterTodoOf(blacklist) ==
    [NoFilter EXCEPT !.kind = "BlackListFilterTodo", !.list = blacklist]
CombinedFilterOf(filters) == [NoFilter EXCEPT !.kind = "CombinedFilter", !.filters = filters]
CategoryFilterOf(category) == [NoFilter EXCEPT !.kind = "CategoryFilter", !.category = category]
ProtocolFilterOf(protocol) == [NoFilter EXCEPT !.kind = "ProtocolFilter", !.protocol = protocol]
\* NegatingFilter(Box<dyn Filter>): the boxed filter is the only element of `filters`.
NegatingFilterOf(filter) == [NoFilter EXCEPT !.kind = "NegatingFilter", !.filters = <<filter>>]
\* LoadFilter of filters/load.rs, built from (min_load, max_load)
LoadFilterOf(min_load, max_load) ==
    [NoFilter EXCEPT !.kind = "LoadFilter", !.min_load = min_load, !.max_load = max_load]
\* LoadFilter of filters.rs, built from the maximal allowed load
LoadFilterMaxOf(load) == [NoFilter EXCEPT !.kind = "LoadFilterMax", !.load = load]

CountryFilter_filter(country, server) == country = server.flag

\* Variant of CountriesFilter::filter in which an empty set filters nothing.
CountriesFilter_filter_unless_empty(countries, server) ==
    countries = {} \/ server.flag \in countries

\* self.countries.contains(server.flag.as_str())
CountriesFilter_filter(countries, server) == server.flag \in countries

WhiteListFilter_filter(whitelist, server) == server.domain \in whitelist

BlackListFilter_filter(blacklist, server) == ~(server.domain \in blacklist)

BlackListFilterTodo_filter(blacklist, server) == server.domain \in blacklist

\* server.categories.contains(&self.category)
CategoryFilter_filter(category, server) == category \in server.categories

\* enum Protocol, as ProtocolFilter matches on it.
Protocols == {"Tcp", "Udp", "Pptp", "L2tp", "OpenVPNXTcp", "OpenVPNXUdp", "Socks",
              "CyberSecProxy", "SslProxy", "CyberSecSslProxy", "Proxy", "WireGuardUdp"}

\* Variant of ProtocolFilter::filter whose obfuscated arms read the xor flags.
ProtocolFilter_filter_xor(protocol, server) ==
    CASE protocol = "Tcp" -> server.features.openvpn_tcp
      [] protocol = "Udp" -> server.features.openvpn_udp
      [] protocol = "Pptp" -> server.features.pptp
      [] protocol = "L2tp" -> server.features.l2tp
      [] protocol = "OpenVPNXTcp" -> server.features.openvpn_xor_tcp
      [] protocol = "OpenVPNXUdp" -> server.features.openvpn_xor_udp
      [] protocol = "Socks" -> server.features.socks
      [] protocol = "CyberSecProxy" -> server.features.proxy_cybersec
      [] protocol = "SslProxy" -> server.features.proxy_ssl
      [] protocol = "CyberSecSslProxy" -> server.features.proxy_ssl_cybersec
      [] protocol = "Proxy" -> server.features.proxy
      [] protocol = "WireGuardUdp" -> server.features.wireguard_udp

\* ProtocolFilter::filter: match self.protocol { ... }
ProtocolFilter_filter(protocol, server) ==
    CASE protocol = "Tcp" -> server.features.openvpn_tcp
      [] protocol = "Udp" -> server.features.openvpn_udp
      [] protocol = "Pptp" -> server.features.pptp
      [] protocol = "L2tp" -> server.features.l2tp
      [] protocol = "OpenVPNXTcp" -> server.features.openvpn_tcp
      [] protocol = "OpenVPNXUdp" -> server.features.openvpn_udp
      [] protocol = "Socks" -> server.features.socks
      [] protocol = "CyberSecProxy" -> server.features.proxy_cybersec
      [] protocol = "SslProxy" -> server.features.proxy_ssl
      [] protocol = "CyberSecSslProxy" -> server.features.proxy_ssl_cybersec
      [] protocol = "Proxy" -> server.features.proxy
      [] protocol = "WireGuardUdp" -> server.features.wireguard_udp

\* Variant of the range LoadFilter that is inclusive at both ends.
LoadFilter_filter_inclusive(min_load, max_load, server) ==
    server.load >= min_load /\ server.load <= max_load

\* filters/load.rs: load.cmp(&min_load) == Greater && load.cmp(&max_load) == Less
LoadFilter_filter(min_load, max_load, server) ==
    server.load > min_load /\ server.load < max_load

\* Variant of the single-threshold LoadFilter with a strict bound.
LoadFilterMax_filter_strict(load, server) == server.load < load

\* filters.rs: server.load.cmp(&self.load) != Ordering::Greater
LoadFilterMax_filter(load, server) == ~(server.load > load)

RECURSIVE Filter_filter(_, _)

\* self.filters.iter().filter(|filter| filter.filter(server)).next().is_some()
CombinedFilter_filter(filters, server) ==
    LET passing == SelectSeq(filters, LAMBDA f : Filter_filter(f, server))
    IN  Len(passing) > 0

\* Variant of NegatingFilter::filter that hands the inner verdict through.
NegatingFilter_filter_through(filter, server) == Filter_filter(filter, server)

\* !self.0.filter(server)
NegatingFilter_filter(filter, server) == ~Filter_filter(filter, server)

\* Dynamic dispatch of Filter::filter on the implementing struct.
Filter_filter(f, server) ==
    CASE f.kind = "CountryFilter" -> CountryFilter_filter(f.country, server)
      [] f.kind = "CountriesFilter" -> CountriesFilter_filter(f.countries, server)
      [] f.kind = "WhiteListFilter" -> WhiteListFilter_filter(f.list, server)
      [] f.kind = "BlackListFilter" -> BlackListFilter_filter(f.list, server)
      [] f.kind = "BlackListFilterTodo" -> BlackListFilterTodo_filter(f.list, server)
      [] f.kind = "CombinedFilter" -> CombinedFilter_filter(f.filters, server)
      [] f.kind = "CategoryFilter" -> CategoryFilter_filter(f.category, server)
      [] f.kind = "ProtocolFilter" -> ProtocolFilter_filter(f.protocol, server)
      [] f.kind = "NegatingFilter" -> NegatingFilter_filter(f.filters[1], server)
      [] f.kind = "LoadFilter" -> LoadFilter_filter(f.min_load, f.max_load, server)
      [] f.kind = "LoadFilterMax" -> LoadFilterMax_filter(f.load, server)

\* Vec::retain: walks the vector front to back and keeps the elements the
\* closure accepts.
RECURSIVE retain(_, _)
retain(v, f) ==
    IF v = <<>> THEN <<>>
    ELSE IF Filter_filter(f, Head(v)) THEN <<Head(v)>> \o retain(Tail(v), f)
         ELSE retain(Tail(v), f)

\* Variant of Servers::filter that retains the records the filter rejects.
Servers_filter_inverted(v, f) == SelectSeq(v, LAMBDA server : ~Filter_filter(f, server))

\* Servers::filter: self.servers.retain(|server| filter.filter(&server))
Servers_filter(v, f) == retain(v, f)

\* The domain sets a membership list is built from.
DomainSets == {{}, {"us1"}, {"us2", "sg1", "zz9"}}

AtomicFilters ==
    {CountryFilterOf("US"), CountriesFilterOf({}), CountriesFilterOf({"BE", "SG"})}
    \cup {WhiteListFilterOf(d) : d \in DomainSets}
    \cup {BlackListFilterOf(d) : d \in DomainSets}
    \cup {BlackListFilterTodoOf(d) : d \in DomainSets}

\* The filters the lists of a CombinedFilter are made of.
CombinableFilters ==
    {CountryFilterOf("US"), WhiteListFilterOf({"us1"}), BlackListFilterOf({"us1"})}

FilterLists == UNION {[1..n -> CombinableFilters] : n \in 0..MaxFilters}

\* The (min_load, max_load) pairs and the thresholds of the load filters:
\* loads of the pool sit on the bounds, inside and outside.
LoadRanges == {<<5, 50>>, <<10, 10>>, <<0, 11>>}
LoadThresholds == {9, 10}

ProtocolFilters == {ProtocolFilterOf(p) : p \in Protocols}
LoadFilters ==
    {LoadFilterOf(r[1], r[2]) : r \in LoadRanges} \cup {LoadFilterMaxOf(k) : k \in LoadThresholds}

\* The filters a NegatingFilter wraps.
NegatableFilters ==
    CombinableFilters
    \cup {CategoryFilterOf("P2P"), ProtocolFilterOf("OpenVPNXTcp"), LoadFilterOf(5, 50),
          BlackListFilterTodoOf({"us1"}), CombinedFilterOf(<<>>),
          CombinedFilterOf(<<CountryFilterOf("US"), WhiteListFilterOf({"us1"})>>)}

\* The filters a client hands to Servers::filter.
Filters ==
    AtomicFilters \cup {CombinedFilterOf(fs) : fs \in FilterLists}
    \cup {CategoryFilterOf("P2P"), CategoryFilterOf("Tor")}
    \cup ProtocolFilters \cup LoadFilters
    \cup {NegatingFilterOf(f) : f \in NegatableFilters}

----------------------------------------------------------------------------
(* Sorters. *)

\* Ord::cmp on unsigned integers.
Ordering(x, y) == IF x < y THEN "Less" ELSE IF x = y THEN "Equal" ELSE "Greater"

NoMap == [d \in {} |-> 0]

NoSorter == [kind |-> "None", ping_results |-> NoMap]
LoadSorter == [kind |-> "LoadSorter", ping_results |-> NoMap]
PingSorterOf(results) == [kind |-> "PingSorter", ping_results |-> results]

\* Variant of LoadSorter::sort with the operands swapped.
LoadSorter_sort_reversed(a, b) == Ordering(b.load, a.load)

\* a.load.cmp(&b.load)
LoadSorter_sort(a, b) == Ordering(a.load, b.load)

\* Variant of PingSorter::sort that reads a missing second domain as 0.
PingSorter_sort_or_zero(results, a, b) ==
    IF a.domain \notin DOMAIN results THEN "panic"
    ELSE Ordering(results[a.domain],
                  IF b.domain \in DOMAIN results THEN results[b.domain] ELSE 0)

\* The receiver of cmp is evaluated first, then its argument; each expect()
\* aborts the process when the domain has no entry.
PingSorter_sort(results, a, b) ==
    IF a.domain \notin DOMAIN results THEN "panic"
    ELSE IF b.domain \notin DOMAIN results THEN "panic"
    ELSE Ordering(results[a.domain], results[b.domain])

\* Dynamic dispatch of Sorter::sort.
Sorter_sort(sorter, a, b) ==
    IF sorter.kind = "LoadSorter" THEN LoadSorter_sort(a, b)
    ELSE PingSorter_sort(sorter.ping_results, a, b)

PermutationsOf(n) == {f \in [1..n -> 1..n] : \A i, j \in 1..n : i # j => f[i] # f[j]}

\* slice::sort_unstable_by calls the comparison on pairs of elements: with
\* two or more elements every element is compared at least once.
sort_panics(v, sorter) ==
    /\ Len(v) >= 2
    /\ \E i, j \in 1..Len(v) : i # j /\ Sorter_sort(sorter, v[i], v[j]) = "panic"

\* The orders a slice can be left in: it keeps its elements.
Reordered(v) == { [i \in 1..Len(v) |-> v[f[i]]] : f \in PermutationsOf(Len(v)) }

\* slice::sort_unstable_by: some permutation of v ordered by the comparison;
\* elements that compare Equal end in any order.
sort_unstable_by(v, sorter) ==
    IF Len(v) < 2 THEN {v}
    ELSE { p \in Reordered(v) :
             \A i, j \in 1..Len(v) : i < j => Sorter_sort(sorter, p[i], p[j]) # "Greater" }

\* slice::sort_unstable_by when the comparison panics: the records moved so
\* far stay moved; the slice holds its elements in an unspecified order.
sort_unwound(v) == Reordered(v)

\* Servers::sort: the catalogs it can leave.
Servers_sort(v, sorter) == sort_unstable_by(v, sorter)

\* Servers::cut: Vec::truncate(max).
Servers_cut(v, max) == IF max < Len(v) THEN SubSeq(v, 1, max) ELSE v

\* Latencies (microseconds) a PingSorter built elsewhere can hold.
MapLatencies == {10, 20}

\* The sets of domains such a sorter can cover without covering the pool.
ProbedSets == {{}, {"us1", "us2"}}

\* The maps of the sorters a client can hold: over part of the pool, with
\* and without ties, and over the whole pool.
PingMaps ==
    UNION {[D -> MapLatencies] : D \in ProbedSets}
    \cup {[d \in Domains |-> IF d \in fast THEN 10 ELSE 20] :
             fast \in {{"us2"}, {"be1", "sg1"}}}

\* The sorters a client hands to Servers::sort.
Sorters == {LoadSorter} \cup {PingSorterOf(m) : m \in PingMaps}

NoCmp == [a |-> "", b |-> "", result |-> ""]
NoFault == [kind |-> "none", host |-> ""]

----------------------------------------------------------------------------
(* Strings.  A str that is inspected character by character is a sequence   *)
(* of characters; a character outside ASCII is written by its code point.   *)

LowerCase == <<"a", "b", "c", "d", "e", "f", "g", "h", "i", "j", "k", "l", "m", "n",
               "o", "p", "q", "r", "s", "t", "u", "v", "w", "x", "y", "z",
               "U+0435", "U+044E">>
UpperCase == <<"A", "B", "C", "D", "E", "F", "G", "H", "I", "J", "K", "L", "M", "N",
               "O", "P", "Q", "R", "S", "T", "U", "V", "W", "X", "Y", "Z",
               "U+0415", "U+042E">>

IndexIn(table, c) == CHOOSE i \in 1..Len(table) : table[i] = c
IsIn(table, c) == \E i \in 1..Len(table) : table[i] = c

char_to_uppercase(c) == IF IsIn(LowerCase, c) THEN UpperCase[IndexIn(LowerCase, c)] ELSE c
char_to_lowercase(c) == IF IsIn(UpperCase, c) THEN LowerCase[IndexIn(UpperCase, c)] ELSE c

\* str::to_uppercase
to_uppercase(chars) == [i \in 1..Len(chars) |-> char_to_uppercase(chars[i])]

\* str::to_lowercase
to_lowercase(chars) == [i \in 1..Len(chars) |-> char_to_lowercase(chars[i])]

\* str::to_ascii_uppercase: the letters a to z are mapped, nothing else is.
char_to_ascii_uppercase(c) ==
    IF IsIn(LowerCase, c) /\ IndexIn(LowerCase, c) <= 26 THEN UpperCase[IndexIn(LowerCase, c)]
    ELSE c
to_ascii_uppercase(chars) == [i \in 1..Len(chars) |-> char_to_ascii_uppercase(chars[i])]

\* Every upper / lower / mixed case spelling of a str.
RECURSIVE Spellings(_)
Spellings(chars) ==
    IF chars = <<>> THEN {<<>>}
    ELSE { <<c>> \o rest : c \in {Head(chars), char_to_lowercase(Head(chars))},
                          rest \in Spellings(Tail(chars)) }

\* Option<T>: None, or Some(x) holding one value.
None == <<>>
Some(x) == <<x>>

\* Variant of perfect_server that clones the last record.
Servers_perfect_server_last(v) == IF Len(v) = 0 THEN None ELSE Some(v[Len(v)])

\* Servers::perfect_server: match self.servers.get(0) { Some(x) => Some(x.clone()), None => None }
Servers_perfect_server(v) == IF Len(v) = 0 THEN None ELSE Some(v[1])

\* The String made of the characters, as string literals are compared with it.
RECURSIVE String(_)
String(chars) == IF chars = <<>> THEN "" ELSE Head(chars) \o String(Tail(chars))

\* Variant of CountryFilter::from that stores the code as it was given.
CountryFilter_from_verbatim(countrycode) == CountryFilterOf(String(countrycode))

\* CountryFilter::from(countrycode) (and the deprecated from_code):
\* CountryFilter { country: countrycode.to_ascii_uppercase() }
CountryFilter_from(countrycode) == CountryFilterOf(String(to_ascii_uppercase(countrycode)))

\* The strs a client builds a CountryFilter from: every spelling of two
\* codes of the pool, and a code no server of the pool has.
CountryCodes ==
    Spellings(<<"S", "G">>) \cup Spellings(<<"U", "S">>) \cup {<<"z", "z">>}

----------------------------------------------------------------------------
(* The region table (filters/region.rs; filters.rs holds the same table).  *)

\* Variant of Region::from_str that has no arm for "6E".
Region_from_str_forgetful(region_short) ==
    CASE region_short \in {"EU", "U+0415U+042E"} -> "EuropeanUnion"
      [] region_short = "EEA" -> "EuropeanEconomicArea"
      [] region_short = "BENELUX" -> "Benelux"
      [] region_short = "5E" -> "FiveEyes"
      [] region_short = "9E" -> "NineEyes"
      [] region_short = "14E" -> "FourteenEyes"
      [] OTHER -> "None"

\* Region::from_str: Some(region) for the listed notations, None otherwise.
Region_from_str(region_short) ==
    CASE region_short \in {"EU", "U+0415U+042E"} -> "EuropeanUnion"
      [] region_short = "EEA" -> "EuropeanEconomicArea"
      [] region_short = "BENELUX" -> "Benelux"
      [] region_short = "5E" -> "FiveEyes"
      [] region_short = "6E" -> "SixEyes"
      [] region_short = "9E" -> "NineEyes"
      [] region_short = "14E" -> "FourteenEyes"
      [] OTHER -> "None"

\* Region::from_str_options: (code, meaning) pairs.
Region_from_str_options ==
    << <<"EU", "The European Union">>,
       <<"U+0415U+042E", "The European Union (Cyrillic notation)">>,
       <<"EEA", "The European Economic Area">>,
       <<"BENELUX", "Countries of the Benelux">>,
       <<"5E", "Countries involved in the Five Eyes programme.">>,
       <<"6E", "Countries involved in the Six Eyes programme.">>,
       <<"9E", "Countries involved in the Nine Eyes programme.">>,
       <<"14E", "Countries involved in the Fourteen Eyes programme.">> >>

EuropeanUnion ==
    <<"AT", "BE", "BG", "HR", "CY", "CZ", "DK", "EE", "FI", "FR", "DE", "GR", "HU", "IE",
      "IT", "LV", "LT", "LU", "MT", "NL", "PL", "PT", "RO", "SK", "SI", "ES", "SE">>

\* Region::countries
Region_countries(region) ==
    CASE region = "EuropeanEconomicArea" -> EuropeanUnion \o <<"NO", "LI", "IS">>
      [] region = "EuropeanUnion" -> EuropeanUnion
      [] region = "Benelux" -> <<"BE", "LU", "NL">>
      [] region = "FiveEyes" -> <<"AU", "CA", "NZ", "GB", "US">>
      [] region = "SixEyes" -> <<"AU", "CA", "FR", "NZ", "GB", "US">>
      [] region = "NineEyes" -> <<"AU", "CA", "DK", "FR", "NL", "NO", "NZ", "GB", "US">>
      [] region = "FourteenEyes" ->
             <<"AU", "BE", "CA", "DE", "DK", "ES", "FR", "IT", "NL", "NO", "NZ", "GB",
               "SE", "US">>

\* The elements of a Vec, as HashSet::from_iter collects them.
from_iter(v) == {v[i] : i \in 1..Len(v)}

\* CountriesFilter::available_regions (deprecated)
CountriesFilter_available_regions == <<"EU", "U+0415U+042E">>

\* CountriesFilter::region_countries (deprecated): Some(list) or None.
CountriesFilter_region_countries(region) ==
    IF region \in {"EU", "U+0415U+042E"} THEN Some(EuropeanUnion) ELSE None

\* CountriesFilter::from_region (deprecated): matches the lowercased str.
CountriesFilter_from_region(region) ==
    IF String(to_lowercase(region)) \in {"eu", "U+0435U+044E"}
    THEN CountriesFilterOf(from_iter(CountriesFilter_region_countries("EU")[1]))
    ELSE NoFilter

----------------------------------------------------------------------------
(* Static filter names (cli_help/parse_static_filter.rs).                  *)

StaticCategories ==
    [p2p |-> "P2P", standard |-> "Standard", double |-> "Double",
     dedicated |-> "Dedicated", tor |-> "Tor", obfuscated |-> "Obfuscated"]

StaticProtocols ==
    [tcp |-> "Tcp", udp |-> "Udp", pptp |-> "Pptp", l2tp |-> "L2tp",
     tcp_xor |-> "OpenVPNXTcp", udp_xor |-> "OpenVPNXUdp", socks |-> "Socks",
     cybersecproxy |-> "CyberSecProxy", sslproxy |-> "SslProxy",
     cybersecsslproxy |-> "CyberSecSslProxy", proxy |-> "Proxy",
     wg_udp |-> "WireGuardUdp"]

\* parse_static_filter: Some((filter, is_category_filter)) or None.
parse_static_filter(filter) ==
    IF filter \in DOMAIN StaticCategories
    THEN [found |-> TRUE, filter |-> CategoryFilterOf(StaticCategories[filter]),
          is_category_filter |-> TRUE]
    ELSE IF filter \in DOMAIN StaticProtocols
    THEN [found |-> TRUE, filter |-> ProtocolFilterOf(StaticProtocols[filter]),
          is_category_filter |-> FALSE]
    ELSE [found |-> FALSE, filter |-> NoFilter, is_category_filter |-> FALSE]

NoLookup == [by |-> "none", found |-> FALSE, region |-> "None", countries |-> <<>>,
             filter |-> NoFilter, is_category_filter |-> FALSE]

\* PossibleFilters::new(): every static filter off, no country filter.
PossibleFilterFields ==
    {"standard_filter", "p2p_filter", "double_filter", "dedicated_filter", "tor_filter",
     "obfuscated_filter", "tcp_filter", "udp_filter", "pptp_filter", "l2tp", "xor_tcp",
     "xor_udp", "socks", "cy_pr", "ssl_pr", "cyssl_pr", "pr"}
PossibleFilters_new ==
    [country_filter |-> None, on |-> [n \in PossibleFilterFields |-> FALSE]]

\* A --whitelist / --blacklist argument and how far its future has got:
\* source is "None" (no such argument), "file" or "url"; result is
\* "pending", "response" (reqwest::get has answered), "None", "Err" or "Ok",
\* and domains is the set read.
NoList == [source |-> "None", result |-> "pending", domains |-> {}]
ListFrom(source) == [source |-> source, result |-> "pending", domains |-> {}]

NoLists == [whitelist |-> NoList, blacklist |-> NoList]

stageIdle ==
    /\ token = <<>> /\ looked = NoLookup
    /\ cli_filters = <<>> /\ cursor = 0 /\ parsed_filters = PossibleFilters_new
    /\ parseLog = <<>> /\ stderr = "" /\ list_args = NoLists /\ filters_to_apply = <<>>

----------------------------------------------------------------------------
(* The values of --tries and --amount: texts, read with str::parse into a  *)
(* usize.  A text is a sequence of characters.                             *)

DecimalDigits == <<"0", "1", "2", "3", "4", "5", "6", "7", "8", "9">>

is_digit(c) == \E k \in 1..10 : DecimalDigits[k] = c

to_digit(c) == (CHOOSE k \in 1..10 : DecimalDigits[k] = c) - 1

\* The number written by a sequence of decimal digits.
RECURSIVE from_digits(_)
from_digits(chars) ==
    IF chars = <<>> THEN 0
    ELSE from_digits(SubSeq(chars, 1, Len(chars) - 1)) * 10 + to_digit(chars[Len(chars)])

ParseOk(n) == [ok |-> TRUE, value |-> n]
ParseErr == [ok |-> FALSE, value |-> 0]

\* str::parse::<usize>: an optional "+" and one digit or more; the empty
\* text, a sign alone, "-" and every other character are errors.  The texts
\* here are short, so no value exceeds usize::MAX.
str_parse(chars) ==
    LET digits == IF chars # <<>> /\ chars[1] = "+" THEN Tail(chars) ELSE chars
    IN  IF digits = <<>> \/ \E k \in 1..Len(digits) : ~is_digit(digits[k])
        THEN ParseErr
        ELSE ParseOk(from_digits(digits))

\* usize::to_string
RECURSIVE to_string(_)
to_string(n) ==
    IF n < 10 THEN <<DecimalDigits[n + 1]>>
    ELSE to_string(n \div 10) \o <<DecimalDigits[(n % 10) + 1]>>

\* default_value("2") of --tries and default_value("10") of --amount.
DefaultMatches == [tries |-> <<"2">>, amount |-> <<"1", "0">>]

\* The texts given to --tries: the numbers up to MaxTries, a negative
\* number and a word.
TriesArgs == {to_string(n) : n \in 0..MaxTries} \cup {<<"-", "1">>, <<"x">>}

\* The texts given to --amount: the numbers up to MaxAmount, a signed zero,
\* the empty text and a number followed by a letter.
AmountArgs == {to_string(n) : n \in 0..MaxAmount} \cup {<<"+", "0">>, <<>>, <<"1", "x">>}

----------------------------------------------------------------------------
(* The library specification: a client applies operations to a catalog.    *)

cliIdle ==
    /\ pc = "lib" /\ s_ping = FALSE /\ m_ping = FALSE /\ matches = DefaultMatches /\ tries = 0 /\ amount = 0
    /\ ping_results = NoMap /\ round = 0 /\ idx = 0 /\ sum = 0
    /\ prober = "none" /\ fault = NoFault /\ probeLog = <<>>
    /\ should_sort = TRUE /\ sortLog = <<>> /\ answers = NoMap

Init ==
    /\ servers \in Catalogs
    /\ before = <<>> /\ op = "new" /\ lastFilter = NoFilter /\ lastSorter = NoSorter
    /\ cmp = NoCmp /\ ops = 0 /\ perfect = None /\ status = "running"
    /\ cliIdle /\ stageIdle

canApply == pc = "lib" /\ status = "running" /\ ops < MaxOps

\* Variant of Servers::filter that also removes the last record it retained.
FilterAndPop(f) ==
    /\ canApply
    /\ servers' = Servers_cut(Servers_filter(servers, f), Len(Servers_filter(servers, f)) - 1)
    /\ before' = servers /\ op' = "filter" /\ lastFilter' = f
    /\ lastSorter' = NoSorter /\ cmp' = NoCmp /\ ops' = ops + 1
    /\ token' = <<>> /\ perfect' = None
    /\ UNCHANGED <<status, cliVars, looked, parseVars>>

\* Servers::filter(filter)
Filter(f) ==
    /\ canApply
    /\ servers' = Servers_filter(servers, f)
    /\ before' = servers /\ op' = "filter" /\ lastFilter' = f
    /\ lastSorter' = NoSorter /\ cmp' = NoCmp /\ ops' = ops + 1
    /\ token' = <<>> /\ perfect' = None
    /\ UNCHANGED <<status, cliVars, looked, parseVars>>

\* Servers::filter(&CountryFilter::from(countrycode))
FilterCountry(countrycode) ==
    /\ canApply
    /\ servers' = Servers_filter(servers, CountryFilter_from(countrycode))
    /\ before' = servers /\ op' = "filter" /\ lastFilter' = CountryFilter_from(countrycode)
    /\ lastSorter' = NoSorter /\ cmp' = NoCmp /\ ops' = ops + 1
    /\ token' = countrycode /\ perfect' = None
    /\ UNCHANGED <<status, cliVars, looked, parseVars>>

\* Servers::sort(sorter)
Sort(sorter) ==
    /\ canApply
    /\ IF sort_panics(servers, sorter)
       THEN status' = "panic" /\ servers' \in sort_unwound(servers)
       ELSE status' = status /\ servers' \in Servers_sort(servers, sorter)
    /\ before' = servers /\ op' = "sort" /\ lastSorter' = sorter
    /\ lastFilter' = NoFilter /\ cmp' = NoCmp /\ ops' = ops + 1
    /\ token' = <<>> /\ perfect' = None
    /\ UNCHANGED <<cliVars, looked, parseVars>>

\* Servers::cut(max)
Cut(max) ==
    /\ canApply
    /\ servers' = Servers_cut(servers, max)
    /\ before' = servers /\ op' = "cut"
    /\ lastFilter' = NoFilter /\ lastSorter' = NoSorter /\ cmp' = NoCmp
    /\ ops' = ops + 1
    /\ token' = <<>> /\ perfect' = None
    /\ UNCHANGED <<status, cliVars, looked, parseVars>>

\* Sorter::sort(a, b) on two records of the catalog, as Servers::sort calls it
Compare(sorter, i, j) ==
    /\ canApply
    /\ i \in 1..Len(servers) /\ j \in 1..Len(servers)
    /\ LET r == Sorter_sort(sorter, servers[i], servers[j])
       IN  /\ cmp' = [a |-> servers[i].domain, b |-> servers[j].domain, result |-> r]
           /\ status' = IF r = "panic" THEN "panic" ELSE status
    /\ before' = servers /\ op' = "compare" /\ lastSorter' = sorter
    /\ lastFilter' = NoFilter /\ ops' = ops + 1
    /\ token' = <<>> /\ perfect' = None
    /\ UNCHANGED <<servers, cliVars, looked, parseVars>>

\* Servers::perfect_server(): a read of the catalog; the filter last applied
\* stays on record.
PerfectServer ==
    /\ canApply
    /\ perfect' = Servers_perfect_server(servers)
    /\ before' = servers /\ op' = "perfect_server"
    /\ lastSorter' = NoSorter /\ cmp' = NoCmp /\ ops' = ops + 1
    /\ token' = <<>>
    /\ UNCHANGED <<servers, lastFilter, status, cliVars, looked, parseVars>>

Next ==
    \/ \E f \in Filters : Filter(f)
    \/ \E countrycode \in CountryCodes : FilterCountry(countrycode)
    \/ \E sorter \in Sorters : Sort(sorter)
    \/ \E max \in 0..MaxServers : Cut(max)
    \/ \E sorter \in Sorters, i, j \in 1..MaxServers : Compare(sorter, i, j)
    \/ PerfectServer

Spec == Init /\ [][Next]_vars

----------------------------------------------------------------------------
(* The probe primitive (oping::Ping), an external collaborator.            *)
(* add_host either accepts a host or returns an error; send either returns *)
(* an error or one result per added host.  latency_ms is a float: it is    *)
(* written here in nanoseconds, and -1000000 is the -1.0 ms that is        *)
(* reported for a host that did not answer.                                *)

Latencies == {-1000000, 10000, 15500}

Dropped == -1000000

\* (result.latency_ms * 1000f64) as usize: microseconds, truncated towards
\* zero; the cast of a negative float saturates at 0.
as_micros(latency) == IF latency < 0 THEN 0 ELSE latency \div 1000

\* The hosts of one Ping instance after adding every server of the catalog.
HostsOf(v) == [i \in 1..Len(v) |-> v[i].domain]

\* One round of ping_single: every result is added to the entry of its host
\* (unwrap_or(0) for a host seen for the first time).
accumulate(results, lat) ==
    [d \in (DOMAIN results) \cup (DOMAIN lat) |->
        IF d \in DOMAIN lat
        THEN (IF d \in DOMAIN results THEN results[d] ELSE 0) + as_micros(lat[d])
        ELSE results[d]]

\* The results of one send, added to the count of what each host returned.
counted(seen, lat) ==
    [d \in (DOMAIN seen) \cup (DOMAIN lat) |->
        [l \in Latencies |->
            (IF d \in DOMAIN seen THEN seen[d][l] ELSE 0)
            + (IF d \in DOMAIN lat /\ lat[d] = l THEN 1 ELSE 0)]]

\* Variant of the final division that divides by one try too many.
averaged_off_by_one(results, n) == [d \in DOMAIN results |-> results[d] \div (n + 1)]

\* ping_results.into_iter().map(|(host, results)| (host, results / tries))
averaged(results, n) == [d \in DOMAIN results |-> results[d] \div n]

\* Variant of the insert that forgets the entries made before.
inserted_alone(results, domain, value) == [d \in {domain} |-> value]

\* ping_results.insert(server.domain.clone(), sum / tries)
inserted(results, domain, value) ==
    [d \in (DOMAIN results) \cup {domain} |-> IF d = domain THEN value ELSE results[d]]

\* Variant of the `match` of main.rs whose Err arm leaves the catalog unsorted.
should_sort_never(result) == FALSE

\* `match` of main.rs: Ok(sorter) clears should_sort, Err(error) sets it.
should_sort_after(result) == IF result = "ok" THEN FALSE ELSE TRUE

\* The PingSorter constructor `sort` of main.rs calls.
constructor_of(single, multi) == IF single THEN "ping_single" ELSE "ping_multi"

----------------------------------------------------------------------------
(* The CLI specification: one run of `sort` of main.rs on a filtered       *)
(* catalog.                                                                *)

InitCli ==
    /\ servers \in Catalogs
    /\ before = <<>> /\ op = "new" /\ lastFilter = NoFilter /\ lastSorter = NoSorter
    /\ cmp = NoCmp /\ ops = 0 /\ perfect = None /\ status = "running"
    /\ pc = "sort"
    /\ s_ping \in BOOLEAN /\ m_ping \in BOOLEAN
    /\ matches \in [tries : TriesArgs, amount : AmountArgs]
    /\ tries = 0 /\ amount = 0
    /\ ping_results = NoMap /\ round = 0 /\ idx = 0 /\ sum = 0
    /\ prober = "none" /\ fault = NoFault /\ probeLog = <<>>
    /\ should_sort = TRUE /\ sortLog = <<>> /\ answers = NoMap
    /\ stageIdle

given == <<s_ping, m_ping, matches>>
args == <<given, tries, amount>>
history == <<op, lastFilter, cmp, ops, perfect>>

\* What `sort` leaves alone when it ends the process before the cut.
exitRest == <<servers, before, pc, history, lookupVars, cli_filters, cursor, parsed_filters,
              parseLog, list_args, filters_to_apply, lastSorter, args, answers, ping_results,
              round, idx, sum, prober, fault, probeLog, should_sort, sortLog>>

\* sort(), with a ping flag: matches.value_of("tries").unwrap().parse() is
\* Err; the error is printed and std::process::exit(1) ends the run.
SortTriesErr ==
    /\ pc = "sort" /\ status = "running" /\ (s_ping \/ m_ping)
    /\ ~str_parse(matches.tries).ok
    /\ stderr' = "Could not read tries of pings"
    /\ status' = "exit"
    /\ UNCHANGED exitRest

\* sort(), with a ping flag: tries was read, the parse of "amount" is Err;
\* the error is printed and std::process::exit(1) ends the run.
SortAmountErr ==
    /\ pc = "sort" /\ status = "running" /\ (s_ping \/ m_ping)
    /\ str_parse(matches.tries).ok /\ ~str_parse(matches.amount).ok
    /\ stderr' = "Could not read amount of pings"
    /\ status' = "exit"
    /\ UNCHANGED exitRest

\* sort(), entry: without a ping flag go to the final sort, --tries and
\* --amount are not looked at; with one and both values read, cut the
\* catalog to `amount` and enter the PingSorter constructor.
SortBegin ==
    /\ pc = "sort" /\ status = "running"
    /\ before' = servers
    /\ IF s_ping \/ m_ping
       THEN /\ str_parse(matches.tries).ok /\ str_parse(matches.amount).ok
            /\ amount' = str_parse(matches.amount).value
            /\ tries' = str_parse(matches.tries).value
            /\ servers' = Servers_cut(servers, amount')
            /\ pc' = constructor_of(s_ping, m_ping)
       ELSE /\ servers' = servers
            /\ pc' = "should_sort"
            /\ UNCHANGED <<tries, amount>>
    /\ UNCHANGED <<status, history, stageVars, lastSorter, given, answers, ping_results, round, idx, sum,
                   prober, fault, probeLog, should_sort, sortLog>>

\* Variant of the error return that hands out the sums measured so far.
ReturnPartial(kind, host) ==
    /\ prober' = "ok" /\ fault' = [kind |-> kind, host |-> host]
    /\ lastSorter' = PingSorterOf(ping_results)
    /\ ping_results' = ping_results
    /\ pc' = "match"

\* The `?` of a failed add_host or send in a constructor: it returns
\* Err(error); the map is dropped and no PingSorter is built.
ReturnErr(kind, host) ==
    /\ prober' = "err" /\ fault' = [kind |-> kind, host |-> host]
    /\ lastSorter' = NoSorter
    /\ ping_results' = NoMap
    /\ pc' = "match"

\* ping_single, one iteration of `for _ in 0..tries`: add_host(...)? fails on
\* the host at position i.
PingSingleAddHostErr(i) ==
    /\ pc = "ping_single" /\ status = "running" /\ round < tries
    /\ i \in 1..Len(servers)
    /\ ReturnErr("add_host", servers[i].domain)
    /\ UNCHANGED <<servers, status, before, history, stageVars, args, answers, round, idx, sum,
                   probeLog, should_sort, sortLog>>

\* ping_single, one iteration: every host is added, pingr.send()? fails.
PingSingleSendErr ==
    /\ pc = "ping_single" /\ status = "running" /\ round < tries
    /\ probeLog' = Append(probeLog, HostsOf(servers))
    /\ ReturnErr("send", "")
    /\ UNCHANGED <<servers, status, before, history, stageVars, args, answers, round, idx, sum,
                   should_sort, sortLog>>

\* ping_single, one iteration: every host is added, send returns one result
\* per host and each is added to the sums.
PingSingleRound(lat) ==
    /\ pc = "ping_single" /\ status = "running" /\ round < tries
    /\ probeLog' = Append(probeLog, HostsOf(servers))
    /\ ping_results' = accumulate(ping_results, lat)
    /\ answers' = counted(answers, lat)
    /\ round' = round + 1
    /\ UNCHANGED <<servers, status, before, history, stageVars, lastSorter, args, pc, idx, sum,
                   prober, fault, should_sort, sortLog>>

\* ping_single, after the loop: Ok(PingSorter { sums / tries }).
PingSingleReturn ==
    /\ pc = "ping_single" /\ status = "running" /\ round = tries
    /\ lastSorter' = PingSorterOf(averaged(ping_results, tries))
    /\ prober' = "ok" /\ pc' = "match"
    /\ UNCHANGED <<servers, status, before, history, stageVars, args, answers, ping_results, round, idx, sum,
                   fault, probeLog, should_sort, sortLog>>

\* ping_multi, one iteration of the inner loop for the server at idx + 1:
\* add_host(...)? fails.
PingMultiAddHostErr ==
    /\ pc = "ping_multi" /\ status = "running"
    /\ idx < Len(servers) /\ round < tries
    /\ ReturnErr("add_host", servers[idx + 1].domain)
    /\ UNCHANGED <<servers, status, before, history, stageVars, args, answers, round, idx, sum,
                   probeLog, should_sort, sortLog>>

\* ping_multi, one iteration of the inner loop: pingr.send()? fails.
PingMultiSendErr ==
    /\ pc = "ping_multi" /\ status = "running"
    /\ idx < Len(servers) /\ round < tries
    /\ probeLog' = Append(probeLog, <<servers[idx + 1].domain>>)
    /\ ReturnErr("send", "")
    /\ UNCHANGED <<servers, status, before, history, stageVars, args, answers, round, idx, sum,
                   should_sort, sortLog>>

\* Variant of the probe of ping_multi that adds every host of the catalog.
PingMultiProbeAll(latency) ==
    /\ pc = "ping_multi" /\ status = "running"
    /\ idx < Len(servers) /\ round < tries
    /\ probeLog' = Append(probeLog, HostsOf(servers))
    /\ sum' = sum + as_micros(latency)
    /\ round' = round + 1
    /\ UNCHANGED <<servers, status, before, history, stageVars, lastSorter, args, answers, pc,
                   ping_results, idx, prober, fault, should_sort, sortLog>>

\* ping_multi, one iteration of the inner loop: the latency of the only host
\* is added to sum.
PingMultiProbe(latency) ==
    /\ pc = "ping_multi" /\ status = "running"
    /\ idx < Len(servers) /\ round < tries
    /\ probeLog' = Append(probeLog, <<servers[idx + 1].domain>>)
    /\ sum' = sum + as_micros(latency)
    /\ round' = round + 1
    /\ UNCHANGED <<servers, status, before, history, stageVars, lastSorter, args, answers, pc, ping_results,
                   idx, prober, fault, should_sort, sortLog>>

\* ping_multi, end of the outer loop body: insert(domain, sum / tries); the
\* division aborts the process when tries is 0.
PingMultiInsert ==
    /\ pc = "ping_multi" /\ status = "running"
    /\ idx < Len(servers) /\ round = tries
    /\ IF tries = 0
       THEN /\ status' = "panic"
            /\ UNCHANGED <<ping_results, idx, round, sum>>
       ELSE /\ status' = status
            /\ ping_results' = inserted(ping_results, servers[idx + 1].domain, sum \div tries)
            /\ idx' = idx + 1 /\ round' = 0 /\ sum' = 0
    /\ UNCHANGED <<servers, before, history, stageVars, lastSorter, args, answers, pc, prober, fault,
                   probeLog, should_sort, sortLog>>

\* ping_multi, after the outer loop: Ok(PingSorter { ping_results }).
PingMultiReturn ==
    /\ pc = "ping_multi" /\ status = "running" /\ idx = Len(servers)
    /\ lastSorter' = PingSorterOf(ping_results)
    /\ prober' = "ok" /\ pc' = "match"
    /\ UNCHANGED <<servers, status, before, history, stageVars, args, answers, ping_results, round, idx, sum,
                   fault, probeLog, should_sort, sortLog>>

\* sort(), arm Ok(sorter): data.sort(&sorter); should_sort = false.
MatchOk ==
    /\ pc = "match" /\ status = "running" /\ prober = "ok"
    /\ IF sort_panics(servers, lastSorter)
       THEN /\ status' = "panic"
            /\ servers' \in sort_unwound(servers)
            /\ UNCHANGED <<sortLog, should_sort, pc>>
       ELSE /\ status' = status
            /\ servers' \in Servers_sort(servers, lastSorter)
            /\ sortLog' = Append(sortLog, "PingSorter")
            /\ should_sort' = should_sort_after(prober)
            /\ pc' = "should_sort"
    /\ UNCHANGED <<before, history, stageVars, lastSorter, args, answers, ping_results, round, idx, sum,
                   prober, fault, probeLog>>

\* sort(), arm Err(error): the error is printed; should_sort = true.
MatchErr ==
    /\ pc = "match" /\ status = "running" /\ prober = "err"
    /\ should_sort' = should_sort_after(prober)
    /\ pc' = "should_sort"
    /\ UNCHANGED <<servers, status, before, history, stageVars, lastSorter, args, answers, ping_results,
                   round, idx, sum, prober, fault, probeLog, sortLog>>

\* sort(), end: if should_sort { data.sort(&LoadSorter) }.
FinalSort ==
    /\ pc = "should_sort" /\ status = "running"
    /\ IF should_sort
       THEN /\ servers' \in Servers_sort(servers, LoadSorter)
            /\ sortLog' = Append(sortLog, "LoadSorter")
       ELSE UNCHANGED <<servers, sortLog>>
    /\ pc' = "done"
    /\ UNCHANGED <<status, before, history, stageVars, lastSorter, args, answers, ping_results, round, idx,
                   sum, prober, fault, probeLog, should_sort>>

NextCli ==
    \/ SortTriesErr
    \/ SortAmountErr
    \/ SortBegin
    \/ \E i \in 1..MaxServers : PingSingleAddHostErr(i)
    \/ PingSingleSendErr
    \/ \E lat \in [DomainsOf(servers) -> Latencies] : PingSingleRound(lat)
    \/ PingSingleReturn
    \/ PingMultiAddHostErr
    \/ PingMultiSendErr
    \/ \E latency \in Latencies : PingMultiProbe(latency)
    \/ PingMultiInsert
    \/ PingMultiReturn
    \/ MatchOk
    \/ MatchErr
    \/ FinalSort

SpecCli == InitCli /\ [][NextCli]_vars

----------------------------------------------------------------------------
(* The lookup specification: one str is looked up in the static tables.    *)

\* The listed region codes, character by character.
RegionCodes ==
    { <<"E", "U">>, <<"U+0415", "U+042E">>, <<"E", "E", "A">>,
      <<"B", "E", "N", "E", "L", "U", "X">>,
      <<"5", "E">>, <<"6", "E">>, <<"9", "E">>, <<"1", "4", "E">> }

\* Strs that are no region code: static filter names, a country, junk.
OtherTokens ==
    { <<>>, <<"t", "o", "r">>, <<"T", "O", "R">>, <<"p", "2", "p">>, <<"u", "d", "p">>,
      <<"t", "c", "p", "_", "x", "o", "r">>, <<"w", "g", "_", "u", "d", "p">>,
      <<"u", "s">>, <<"E", "U", "X">>, <<"x", "y", "z", "1", "2", "3">> }

LookupTokens == UNION {Spellings(code) : code \in RegionCodes} \cup OtherTokens

sortIdle ==
    /\ s_ping = FALSE /\ m_ping = FALSE /\ matches = DefaultMatches /\ tries = 0 /\ amount = 0
    /\ ping_results = NoMap /\ round = 0 /\ idx = 0 /\ sum = 0
    /\ prober = "none" /\ fault = NoFault /\ probeLog = <<>>
    /\ should_sort = TRUE /\ sortLog = <<>> /\ answers = NoMap

libIdle ==
    /\ before = <<>> /\ op = "new" /\ lastFilter = NoFilter /\ lastSorter = NoSorter
    /\ cmp = NoCmp /\ ops = 0 /\ perfect = None

InitLookup ==
    /\ servers = <<>> /\ status = "running" /\ libIdle /\ sortIdle
    /\ pc = "lookup"
    /\ token \in LookupTokens /\ looked = NoLookup
    /\ cli_filters = <<>> /\ cursor = 0 /\ parsed_filters = PossibleFilters_new
    /\ parseLog = <<>> /\ stderr = "" /\ list_args = NoLists /\ filters_to_apply = <<>>

sortVars == <<s_ping, m_ping, matches, tries, amount, ping_results, round, idx, sum, prober,
              fault, probeLog, should_sort, sortLog, answers>>

\* The Option<Region> of a lookup and the countries() of the region found.
RegionLookup(by, region) ==
    [NoLookup EXCEPT !.by = by, !.found = (region # "None"), !.region = region,
                     !.countries = IF region = "None" THEN <<>> ELSE Region_countries(region)]

Lookup(result) ==
    /\ pc = "lookup" /\ status = "running"
    /\ looked' = result /\ pc' = "looked"
    /\ UNCHANGED <<servers, status, libVars, sortVars, token, parseVars>>

\* Variant of the lookup in which Region::from_str folds the case itself.
RegionFromStrAnyCase ==
    Lookup(RegionLookup("Region::from_str", Region_from_str(String(to_uppercase(token)))))

\* Region::from_str(token)
RegionFromStr == Lookup(RegionLookup("Region::from_str", Region_from_str(String(token))))

\* Region::from_str(&filter.to_uppercase()), the lookup of parse_filters in main.rs
RegionFromStrUppercase ==
    Lookup(RegionLookup("Region::from_str(to_uppercase)",
                        Region_from_str(String(to_uppercase(token)))))

\* CountriesFilter::from_region(token) (deprecated)
CountriesFilterFromRegion ==
    LET f == CountriesFilter_from_region(token)
    IN  Lookup([NoLookup EXCEPT !.by = "CountriesFilter::from_region",
                                !.found = (f # NoFilter), !.filter = f])

\* parse_static_filter(token)
ParseStaticFilter ==
    LET r == parse_static_filter(String(token))
    IN  Lookup([NoLookup EXCEPT !.by = "parse_static_filter", !.found = r.found,
                                !.filter = r.filter,
                                !.is_category_filter = r.is_category_filter])

NextLookup ==
    \/ RegionFromStr
    \/ RegionFromStrUppercase
    \/ CountriesFilterFromRegion
    \/ ParseStaticFilter

SpecLookup == InitLookup /\ [][NextLookup]_vars

----------------------------------------------------------------------------
(* The filter stage of the CLI: parse_filters and apply_filters of main.rs, *)
(* and parse_filters and apply_filters of cli_help.                         *)

\* The arms of the match of parse_filters: token -> field of PossibleFilters.
StaticFields ==
    [p2p |-> "p2p_filter", standard |-> "standard_filter", double |-> "double_filter",
     dedicated |-> "dedicated_filter", tor |-> "tor_filter",
     obfuscated |-> "obfuscated_filter", tcp |-> "tcp_filter", udp |-> "udp_filter",
     pptp |-> "pptp_filter", l2tp |-> "l2tp", tcp_xor |-> "xor_tcp", udp_xor |-> "xor_udp",
     socks |-> "socks", cybersecproxy |-> "cy_pr", sslproxy |-> "ssl_pr",
     cybersecsslproxy |-> "cyssl_pr", proxy |-> "pr"]

\* Servers::flags
flags(data) == {data[i].flag : i \in 1..Len(data)}

\* Variant of the match of parse_filters that tries the country codes first.
arm_of_country_first(filter, data) ==
    IF String(to_uppercase(filter)) \in flags(data) THEN "country"
    ELSE IF String(filter) \in DOMAIN StaticFields THEN "static"
    ELSE IF Region_from_str(String(to_uppercase(filter))) # "None" THEN "region"
    ELSE "unknown"

\* The arm of parse_filters that takes a token: the static names first, then
\* `_`: the uppercased token as a flag of the data, as a region, or unknown.
arm_of(filter, data) ==
    IF String(filter) \in DOMAIN StaticFields THEN "static"
    ELSE IF String(to_uppercase(filter)) \in flags(data) THEN "country"
    ELSE IF Region_from_str(String(to_uppercase(filter))) # "None" THEN "region"
    ELSE "unknown"

\* Variant of the insertion that starts from an empty set every time.
with_countries_replacing(country_filter, countries) == Some(countries)

\* country_filter after inserting countries (a None becomes an empty set first).
with_countries(country_filter, countries) ==
    Some((IF country_filter = None THEN {} ELSE country_filter[1]) \cup countries)

\* apply_filters of main.rs: the filters it applies, in its order.
ApplyOrder ==
    << <<"standard_filter", CategoryFilterOf("Standard")>>,
       <<"p2p_filter", CategoryFilterOf("P2P")>>,
       <<"tor_filter", CategoryFilterOf("Tor")>>,
       <<"double_filter", CategoryFilterOf("Double")>>,
       <<"obfuscated_filter", CategoryFilterOf("Obfuscated")>>,
       <<"dedicated_filter", CategoryFilterOf("Dedicated")>>,
       <<"tcp_filter", ProtocolFilterOf("Tcp")>>,
       <<"udp_filter", ProtocolFilterOf("Udp")>>,
       <<"pptp_filter", ProtocolFilterOf("Pptp")>>,
       <<"l2tp", ProtocolFilterOf("L2tp")>>,
       <<"xor_tcp", ProtocolFilterOf("OpenVPNXTcp")>>,
       <<"xor_udp", ProtocolFilterOf("OpenVPNXUdp")>>,
       <<"socks", ProtocolFilterOf("Socks")>>,
       <<"cy_pr", ProtocolFilterOf("CyberSecProxy")>>,
       <<"ssl_pr", ProtocolFilterOf("SslProxy")>>,
       <<"cyssl_pr", ProtocolFilterOf("CyberSecSslProxy")>>,
       <<"pr", ProtocolFilterOf("Proxy")>> >>

\* data.filter(..) for every filter of the sequence, front to back.
RECURSIVE filter_each(_, _)
filter_each(data, fs) ==
    IF fs = <<>> THEN data ELSE filter_each(Servers_filter(data, Head(fs)), Tail(fs))

\* apply_filters of main.rs
apply_filters(filters_to_do, data) ==
    LET country == IF filters_to_do.country_filter = None THEN <<>>
                   ELSE <<CountriesFilterOf(filters_to_do.country_filter[1])>>
        chosen == SelectSeq(ApplyOrder, LAMBDA e : filters_to_do.on[e[1]])
    IN  filter_each(data, country \o [k \in 1..Len(chosen) |-> chosen[k][2]])

\* The tokens of a command line: static names, countries and regions in
\* several spellings, an uppercase static name, an unknown token.
ParseTokens ==
    { <<"t", "o", "r">>, <<"T", "O", "R">>, <<"t", "c", "p", "_", "x", "o", "r">>,
      <<"u", "s">>, <<"B", "e">>, <<"e", "u">>, <<"5", "E">>,
      <<"w", "g", "_", "u", "d", "p">>, <<"x", "y", "z", "1", "2", "3">> }

TokenLists == UNION {[1..n -> ParseTokens] : n \in 0..MaxTokens}

\* The data of a run: nothing, the usual flags, and a catalog in which one
\* server is flagged "TOR" and another is in the category Tor.
ParseCatalogs ==
    { <<>>,
      << Server("us1", "US", 50, {"Standard", "P2P"}, {"openvpn_tcp", "openvpn_udp"}),
         Server("be1", "BE", 5, {"Standard", "Double"}, {"openvpn_tcp", "openvpn_xor_udp"}),
         Server("sg1", "SG", 10, {"P2P"}, {"openvpn_tcp", "pptp", "wireguard_udp"}) >>,
      << Server("tor1", "TOR", 20, {"Standard"}, {"openvpn_tcp"}),
         Server("us3", "US", 30, {"Standard", "Tor"}, {"openvpn_udp", "openvpn_xor_tcp"}),
         Server("be1", "BE", 5, {"Standard", "Double"}, {"openvpn_tcp", "openvpn_xor_udp"}) >> }

ListSources == {NoList, ListFrom("file"), ListFrom("url")}

\* The sets of domains a list can hold when it is read.
ListContents == {{}, {"us3", "be1"}}

InitParse ==
    /\ servers \in ParseCatalogs /\ status = "running" /\ libIdle /\ sortIdle
    /\ token = <<>> /\ looked = NoLookup
    /\ cli_filters \in TokenLists /\ cursor = 0 /\ parsed_filters = PossibleFilters_new
    /\ parseLog = <<>> /\ stderr = "" /\ filters_to_apply = <<>>
    /\ \/ pc = "parse_filters" /\ list_args = NoLists
       \/ /\ pc = "cli_help_parse_filters"
          /\ list_args \in [whitelist : ListSources, blacklist : ListSources]

parseRest == <<history, lastSorter, sortVars, lookupVars, cli_filters>>

\* parse_filters of main.rs, one iteration of `for filter in cli_filters`.
ParseFilter ==
    /\ pc = "parse_filters" /\ status = "running" /\ cursor < Len(cli_filters)
    /\ LET filter == cli_filters[cursor + 1]
           upper == String(to_uppercase(filter))
           arm == arm_of(filter, servers)
       IN  /\ parseLog' = Append(parseLog, arm)
           /\ parsed_filters' =
                CASE arm = "static" ->
                       [parsed_filters EXCEPT !.on[StaticFields[String(filter)]] = TRUE]
                  [] arm = "country" ->
                       [parsed_filters EXCEPT
                           !.country_filter = with_countries(@, {upper})]
                  [] arm = "region" ->
                       [parsed_filters EXCEPT
                           !.country_filter =
                               with_countries(@, from_iter(Region_countries(Region_from_str(upper))))]
                  [] OTHER -> parsed_filters
           /\ stderr' = IF arm = "unknown" THEN String(filter) ELSE stderr
           /\ status' = IF arm = "unknown" THEN "exit" ELSE status
    /\ cursor' = cursor + 1
    /\ UNCHANGED <<list_args, servers, before, pc, filters_to_apply, parseRest>>

\* parse_filters of main.rs, after the loop: parsed_filters is returned.
ParseFiltersReturn ==
    /\ pc = "parse_filters" /\ status = "running" /\ cursor = Len(cli_filters)
    /\ pc' = "apply_filters"
    /\ UNCHANGED <<list_args, servers, before, status, cursor, parsed_filters, parseLog, stderr,
                   filters_to_apply, parseRest>>

\* apply_filters(&filters_to_apply, &mut data) of main.rs
ApplyFilters ==
    /\ pc = "apply_filters" /\ status = "running"
    /\ servers' = apply_filters(parsed_filters, servers)
    /\ before' = servers /\ pc' = "filtered"
    /\ UNCHANGED <<list_args, status, cursor, parsed_filters, parseLog, stderr, filters_to_apply,
                   parseRest>>

cliHelpRest == <<servers, before, status, cursor, parsed_filters, parseLog, stderr, parseRest>>

\* parse_lists awaits the whitelist first and the blacklist after it.
after_list(which) == IF which = "whitelist" THEN "blacklist" ELSE "cli_help_lists"

Lists == {"whitelist", "blacklist"}

\* cli_help::parse_filters, up to its await: the filter tokens are fetched
\* and not looked at, the futures are made and the one of the whitelist is
\* polled first.
CliHelpParseFilters ==
    /\ pc = "cli_help_parse_filters" /\ status = "running"
    /\ pc' = "whitelist"
    /\ UNCHANGED <<list_args, filters_to_apply, cliHelpRest>>

\* whitelist() / blacklist() without such an argument: Ok(None).
ListAbsent(which) ==
    /\ pc = which /\ status = "running" /\ list_args[which].source = "None"
    /\ list_args' = [list_args EXCEPT ![which].result = "None"]
    /\ pc' = after_list(which)
    /\ UNCHANGED <<filters_to_apply, cliHelpRest>>

\* read_servers_from_url: reqwest::get(url).await has answered.
ReadServersFromUrlGet(which) ==
    /\ pc = which /\ status = "running"
    /\ list_args[which].source = "url" /\ list_args[which].result = "pending"
    /\ list_args' = [list_args EXCEPT ![which].result = "response"]
    /\ UNCHANGED <<pc, filters_to_apply, cliHelpRest>>

\* read_servers_from_url: reqwest::get(url).await? fails; the `?` of every
\* caller hands the error up and parse_filters returns it.
ReadServersFromUrlGetErr(which) ==
    /\ pc = which /\ status = "running"
    /\ list_args[which].source = "url" /\ list_args[which].result = "pending"
    /\ list_args' = [list_args EXCEPT ![which].result = "Err"]
    /\ pc' = "cli_help_err"
    /\ UNCHANGED <<filters_to_apply, cliHelpRest>>

canRead(which) ==
    \/ list_args[which].source = "file" /\ list_args[which].result = "pending"
    \/ list_args[which].source = "url" /\ list_args[which].result = "response"

\* read_servers_from_file, or .text().await of read_servers_from_url, fails.
ReadServersErr(which) ==
    /\ pc = which /\ status = "running" /\ canRead(which)
    /\ list_args' = [list_args EXCEPT ![which].result = "Err"]
    /\ pc' = "cli_help_err"
    /\ UNCHANGED <<filters_to_apply, cliHelpRest>>

\* read_servers_from_file, or the rest of read_servers_from_url: the lines
\* that are domains are collected and the list filter is built from them.
ReadServers(which, domains) ==
    /\ pc = which /\ status = "running" /\ canRead(which)
    /\ list_args' = [list_args EXCEPT ![which].result = "Ok", ![which].domains = domains]
    /\ pc' = after_list(which)
    /\ UNCHANGED <<filters_to_apply, cliHelpRest>>

\* cli_help::parse_filters, after its await: the filters are inserted at the
\* front, the whitelist first and the blacklist before it.
CliHelpParseFiltersReturn ==
    /\ pc = "cli_help_lists" /\ status = "running"
    /\ filters_to_apply' =
          (IF list_args.blacklist.result = "Ok"
           THEN <<BlackListFilterOf(list_args.blacklist.domains)>> ELSE <<>>)
          \o (IF list_args.whitelist.result = "Ok"
              THEN <<WhiteListFilterOf(list_args.whitelist.domains)>> ELSE <<>>)
    /\ pc' = "cli_help_apply_filters"
    /\ UNCHANGED <<list_args, cliHelpRest>>

\* cli_help::apply_filters(filters_to_apply, &mut data)
CliHelpApplyFilters ==
    /\ pc = "cli_help_apply_filters" /\ status = "running"
    /\ servers' = filter_each(servers, filters_to_apply)
    /\ before' = servers /\ pc' = "cli_help_filtered"
    /\ UNCHANGED <<list_args, status, cursor, parsed_filters, parseLog, stderr, filters_to_apply,
                   parseRest>>

NextParse ==
    \/ ParseFilter
    \/ ParseFiltersReturn
    \/ ApplyFilters
    \/ CliHelpParseFilters
    \/ \E which \in Lists : ListAbsent(which)
    \/ \E which \in Lists : ReadServersFromUrlGet(which)
    \/ \E which \in Lists : ReadServersFromUrlGetErr(which)
    \/ \E which \in Lists : ReadServersErr(which)
    \/ \E which \in Lists, domains \in ListContents : ReadServers(which, domains)
    \/ CliHelpParseFiltersReturn
    \/ CliHelpApplyFilters

SpecParse == InitParse /\ [][NextParse]_vars

----------------------------------------------------------------------------
(* The deprecated benchmark of servers.rs: Servers::benchmark_ping and      *)
(* Server::ping_single, which keep the measurement in the record itself.    *)

\* The latencies send returns here: no answer, 1.9 ms and 20 ms.
BenchLatencies == {-1000000, 1900000, 20000000}

\* result.latency_ms as usize: whole milliseconds, truncated towards zero;
\* the cast of a negative float saturates at 0.
as_millis(latency) == IF latency < 0 THEN 0 ELSE latency \div 1000000

\* sort_ping: sort_unstable_by(|x, y| x.ping.unwrap().cmp(&y.ping.unwrap()))
Servers_sort_ping(v) ==
    IF Len(v) < 2 THEN {v}
    ELSE { p \in { [i \in 1..Len(v) |-> v[f[i]]] : f \in PermutationsOf(Len(v)) } :
             \A i, j \in 1..Len(v) : i < j => p[i].ping[1] <= p[j].ping[1] }

InitBench ==
    /\ servers \in Catalogs /\ status = "running" /\ libIdle
    /\ pc = "benchmark_ping"
    /\ s_ping = FALSE /\ m_ping = FALSE /\ matches = DefaultMatches
    /\ tries \in 0..MaxTries /\ amount \in 0..MaxAmount
    /\ ping_results = NoMap /\ round = 0 /\ idx = 0 /\ sum = 0
    /\ prober = "none" /\ fault = NoFault /\ probeLog = <<>>
    /\ should_sort = TRUE /\ sortLog = <<>> /\ answers = NoMap
    /\ stageIdle

benchRest == <<lastFilter, lastSorter, cmp, ops, perfect, s_ping, m_ping, matches, tries, amount,
               ping_results, should_sort, sortLog, answers, stageVars>>

\* benchmark_ping(servers, tries, _parallel), entry: self.cut(servers).
BenchmarkPingBegin ==
    /\ pc = "benchmark_ping" /\ status = "running"
    /\ before' = servers /\ op' = "benchmark_ping"
    /\ servers' = Servers_cut(servers, amount)
    /\ pc' = "Server::ping_single"
    /\ UNCHANGED <<status, round, idx, sum, prober, fault, probeLog, benchRest>>

\* Server::ping_single of the server at idx + 1, one iteration of the loop:
\* add_host(...)? fails and benchmark_ping returns the error.
ServerPingSingleAddHostErr ==
    /\ pc = "Server::ping_single" /\ status = "running"
    /\ idx < Len(servers) /\ round < tries
    /\ prober' = "err" /\ fault' = [kind |-> "add_host", host |-> servers[idx + 1].domain]
    /\ pc' = "benchmark_returned"
    /\ UNCHANGED <<servers, status, before, op, round, idx, sum, probeLog, benchRest>>

\* Server::ping_single, one iteration: pingr.send()? fails.
ServerPingSingleSendErr ==
    /\ pc = "Server::ping_single" /\ status = "running"
    /\ idx < Len(servers) /\ round < tries
    /\ probeLog' = Append(probeLog, <<servers[idx + 1].domain>>)
    /\ prober' = "err" /\ fault' = [kind |-> "send", host |-> ""]
    /\ pc' = "benchmark_returned"
    /\ UNCHANGED <<servers, status, before, op, round, idx, sum, benchRest>>

\* Server::ping_single, one iteration: the latency of the host, in whole
\* milliseconds, is added to sum.
ServerPingSingleProbe(latency) ==
    /\ pc = "Server::ping_single" /\ status = "running"
    /\ idx < Len(servers) /\ round < tries
    /\ probeLog' = Append(probeLog, <<servers[idx + 1].domain>>)
    /\ sum' = sum + as_millis(latency)
    /\ round' = round + 1
    /\ UNCHANGED <<servers, status, before, op, pc, idx, prober, fault, benchRest>>

\* Server::ping_single, after the loop: self.ping = Some(sum / tries); the
\* division aborts the process when tries is 0.
ServerPingSingleReturn ==
    /\ pc = "Server::ping_single" /\ status = "running"
    /\ idx < Len(servers) /\ round = tries
    /\ IF tries = 0
       THEN /\ status' = "panic"
            /\ UNCHANGED <<servers, idx, round, sum>>
       ELSE /\ status' = status
            /\ servers' = [servers EXCEPT ![idx + 1].ping = Some(sum \div tries)]
            /\ idx' = idx + 1 /\ round' = 0 /\ sum' = 0
    /\ UNCHANGED <<before, op, pc, prober, fault, probeLog, benchRest>>

\* benchmark_ping, after the loop: self.sort_ping(); Ok(()).
BenchmarkPingReturn ==
    /\ pc = "Server::ping_single" /\ status = "running" /\ idx = Len(servers)
    /\ servers' \in Servers_sort_ping(servers)
    /\ prober' = "ok" /\ pc' = "benchmark_returned"
    /\ UNCHANGED <<status, before, op, round, idx, sum, fault, probeLog, benchRest>>

NextBench ==
    \/ BenchmarkPingBegin
    \/ ServerPingSingleAddHostErr
    \/ ServerPingSingleSendErr
    \/ \E latency \in BenchLatencies : ServerPingSingleProbe(latency)
    \/ ServerPingSingleReturn
    \/ BenchmarkPingReturn

SpecBench == InitBench /\ [][NextBench]_vars

----------------------------------------------------------------------------
(* Properties. *)

\* Position of the record with the given domain in a catalog.
PosOf(c, domain) == CHOOSE i \in 1..Len(c) : c[i].domain = domain

\* The record of catalog c at index i is still in catalog d.
KeptIn(d, c, i) == c[i].domain \in DomainsOf(d)

\* Every filter of the list accepts the server.
AllAccept(filters, server) ==
    \A k \in 1..Len(filters) : Filter_filter(filters[k], server)

\* C1: CombinedFilter has AND semantics: Servers::filter with a
\* CombinedFilter keeps a record iff every filter of its list accepts it.
C1_CombinedFilterIsConjunction ==
    (op = "filter" /\ lastFilter.kind = "CombinedFilter") =>
        \A i \in 1..Len(before) :
            KeptIn(servers, before, i) <=> AllAccept(lastFilter.filters, before[i])

\* C2: a whitelist keeps a record iff its domain is in the set, and a
\* blacklist (either BlackListFilter of the repository) keeps a record iff
\* its domain is not in the set.
C2_MembershipLists ==
    op = "filter" =>
        /\ lastFilter.kind = "WhiteListFilter" =>
              \A i \in 1..Len(before) :
                  KeptIn(servers, before, i) <=> before[i].domain \in lastFilter.list
        /\ lastFilter.kind \in {"BlackListFilter", "BlackListFilterTodo"} =>
              \A i \in 1..Len(before) :
                  KeptIn(servers, before, i) <=> before[i].domain \notin lastFilter.list

\* C3: Servers::filter removes exactly the records the filter rejects and
\* keeps the others in their original relative order.
C3_FilterIsStableRetain ==
    op = "filter" =>
        /\ \A k \in 1..Len(servers) : \E i \in 1..Len(before) : servers[k] = before[i]
        /\ \A i \in 1..Len(before) :
              KeptIn(servers, before, i) <=> Filter_filter(lastFilter, before[i])
        /\ \A k, l \in 1..Len(servers) :
              k < l => PosOf(before, servers[k].domain) < PosOf(before, servers[l].domain)

\* C3 witness: a filter removed the middle record of three.
C3_Witness ==
    /\ op = "filter" /\ Len(before) = 3 /\ Len(servers) = 2
    /\ servers[1] = before[1] /\ servers[2] = before[3]

\* C8: PingSorter.sort(a, b) aborts whenever the domain of a or of b has no
\* entry in the map; it returns no ordering for such a pair.
C8_MissingDomainPanics ==
    (/\ op = "compare" /\ lastSorter.kind = "PingSorter"
     /\ \/ cmp.a \notin DOMAIN lastSorter.ping_results
        \/ cmp.b \notin DOMAIN lastSorter.ping_results)
    => (cmp.result = "panic" /\ status = "panic")

\* C8 witness: the first record was probed, the second was not.
C8_Witness ==
    /\ op = "compare" /\ lastSorter.kind = "PingSorter"
    /\ cmp.a \in DOMAIN lastSorter.ping_results
    /\ cmp.b \notin DOMAIN lastSorter.ping_results
    /\ status = "panic"

\* C10: after Servers::sort with LoadSorter, or with a PingSorter covering
\* every record, the catalog holds the same records and the record at index
\* 0 has the least load, respectively the least latency, of the catalog.
C10_BestAtIndexZero ==
    (op = "sort" /\ status = "running") =>
        /\ DomainsOf(servers) = DomainsOf(before) /\ Len(servers) = Len(before)
        /\ lastSorter.kind = "LoadSorter" =>
              \A i \in 1..Len(servers) : servers[1].load <= servers[i].load
        /\ (lastSorter.kind = "PingSorter" /\ Len(servers) >= 2) =>
              \A i \in 1..Len(servers) :
                  lastSorter.ping_results[servers[1].domain]
                      <= lastSorter.ping_results[servers[i].domain]

\* C10 witness: [us1 load 50, us2 load 10] sorted by load has us2 first.
C10_Witness ==
    /\ op = "sort" /\ lastSorter.kind = "LoadSorter"
    /\ Len(before) = 2 /\ before[1].domain = "us1" /\ before[2].domain = "us2"
    /\ servers[1].domain = "us2"

\* What C11 states, not what ProtocolFilter::filter does: the flag of struct
\* Features that carries the name of the protocol.  ProtocolFilter_filter is
\* the match of the code, whose arms for OpenVPNXTcp and OpenVPNXUdp read
\* openvpn_tcp and openvpn_udp instead.
C11_NamedFlag(protocol) ==
    CASE protocol = "Tcp" -> "openvpn_tcp"
      [] protocol = "Udp" -> "openvpn_udp"
      [] protocol = "Pptp" -> "pptp"
      [] protocol = "L2tp" -> "l2tp"
      [] protocol = "OpenVPNXTcp" -> "openvpn_xor_tcp"
      [] protocol = "OpenVPNXUdp" -> "openvpn_xor_udp"
      [] protocol = "Socks" -> "socks"
      [] protocol = "CyberSecProxy" -> "proxy_cybersec"
      [] protocol = "SslProxy" -> "proxy_ssl"
      [] protocol = "CyberSecSslProxy" -> "proxy_ssl_cybersec"
      [] protocol = "Proxy" -> "proxy"
      [] protocol = "WireGuardUdp" -> "wireguard_udp"

\* C11: Servers::filter with a ProtocolFilter keeps a record iff the feature
\* flag named by the protocol is true: openvpn_xor_tcp for OpenVPNXTcp and
\* openvpn_xor_udp for OpenVPNXUdp, whatever the plain openvpn flags are.
C11_ProtocolReadsItsOwnFlag ==
    (op = "filter" /\ lastFilter.kind = "ProtocolFilter") =>
        \A i \in 1..Len(before) :
            KeptIn(servers, before, i) <=> before[i].features[C11_NamedFlag(lastFilter.protocol)]

\* C12: filtering a catalog with NegatingFilter(P) keeps a set of domains
\* that is disjoint from the set P keeps, and the two sets together are the
\* domains of the catalog.
C12_NegationLaw ==
    (op = "filter" /\ lastFilter.kind = "NegatingFilter") =>
        LET kept == DomainsOf(Servers_filter(before, lastFilter.filters[1]))
        IN  /\ DomainsOf(servers) \cap kept = {}
            /\ DomainsOf(servers) \cup kept = DomainsOf(before)

\* C12 witness: the negation of CountryFilter("US") split [us1, be1, us2]
\* into {be1} kept and {us1, us2} removed.
C12_Witness ==
    /\ op = "filter" /\ lastFilter = NegatingFilterOf(CountryFilterOf("US"))
    /\ Len(before) = 3 /\ DomainsOf(before) = {"us1", "be1", "us2"}
    /\ DomainsOf(servers) = {"be1"}

\* C16: the range LoadFilter keeps a record iff min_load < load < max_load;
\* a load equal to either bound is removed.
C16_LoadRangeIsExclusive ==
    (op = "filter" /\ lastFilter.kind = "LoadFilter") =>
        \A i \in 1..Len(before) :
            /\ KeptIn(servers, before, i) <=>
                  (lastFilter.min_load < before[i].load /\ before[i].load < lastFilter.max_load)
            /\ before[i].load \in {lastFilter.min_load, lastFilter.max_load}
                  => ~KeptIn(servers, before, i)

\* C16 witness: LoadFilter (5, 50) on loads 5, 10 and 50 kept the 10 alone.
C16_Witness ==
    /\ op = "filter" /\ lastFilter = LoadFilterOf(5, 50)
    /\ {before[i].load : i \in 1..Len(before)} = {5, 10, 50}
    /\ {servers[i].load : i \in 1..Len(servers)} = {10}

\* C17: the single-threshold LoadFilter keeps a record iff load <= k: a
\* load of k stays, a load of k + 1 goes.
C17_LoadThresholdIsInclusive ==
    (op = "filter" /\ lastFilter.kind = "LoadFilterMax") =>
        \A i \in 1..Len(before) :
            /\ KeptIn(servers, before, i) <=> before[i].load <= lastFilter.load
            /\ before[i].load = lastFilter.load => KeptIn(servers, before, i)
            /\ before[i].load = lastFilter.load + 1 => ~KeptIn(servers, before, i)

\* C17 witness: threshold 10 kept the loads 5 and 10 and removed 50.
C17_Witness ==
    /\ op = "filter" /\ lastFilter = LoadFilterMaxOf(10)
    /\ {before[i].load : i \in 1..Len(before)} = {5, 10, 50}
    /\ {servers[i].load : i \in 1..Len(servers)} = {5, 10}

\* C17 witness, second half: threshold 9 removed a record of load 10.
C17_WitnessAbove ==
    /\ op = "filter" /\ lastFilter = LoadFilterMaxOf(9)
    /\ \E i \in 1..Len(before) : before[i].load = 10
    /\ \A i \in 1..Len(servers) : servers[i].load # 10

\* The constructor `sort` of main.rs called, once it has returned.
Returned(constructor) ==
    /\ pc \in {"match", "should_sort", "done"}
    /\ (s_ping \/ m_ping) /\ constructor_of(s_ping, m_ping) = constructor

ProbedDomains == UNION { {probeLog[k][h] : h \in 1..Len(probeLog[k])} : k \in 1..Len(probeLog) }

\* C4: when latency ranking was requested and the prober failed, the pass
\* still ranks the catalog: it is sorted by load alone, so index 0 holds a
\* record of minimal load among the records left after the cut.
C4_FallbackSortsByLoad ==
    (pc = "done" /\ (s_ping \/ m_ping) /\ prober = "err") =>
        /\ sortLog = <<"LoadSorter">>
        /\ DomainsOf(servers) = DomainsOf(Servers_cut(before, amount))
        /\ \A i \in 1..Len(servers) : servers[1].load <= servers[i].load

\* C4 witness: the prober failed on [us1 load 50, us2 load 10]; us2 is first.
C4_Witness ==
    /\ pc = "done" /\ prober = "err" /\ Len(servers) = 2
    /\ before[1].domain = "us1" /\ before[2].domain = "us2"
    /\ servers[1].domain = "us2"

\* The hosts of the batched pass that failed on their own: the host
\* add_host refused, and the hosts that were probed and never answered.
FailedHosts ==
    (IF fault.kind = "add_host" THEN {fault.host} ELSE {})
    \cup {d \in DOMAIN answers :
             answers[d][Dropped] >= 1 /\ \A l \in Latencies \ {Dropped} : answers[d][l] = 0}

\* C5: in the batched strategy a failure that concerns one host (it cannot
\* be added, or it does not answer) does not abort the pass: the prober
\* returns success, its map holds the other hosts of the catalog, and the
\* failed host is absent from the map.
C5_HostFailureDoesNotAbort ==
    (Returned("ping_single") /\ fault.kind # "send") =>
        \A h \in FailedHosts :
            /\ prober = "ok"
            /\ (DomainsOf(servers) \ FailedHosts) \subseteq DOMAIN lastSorter.ping_results
            /\ h \notin DOMAIN lastSorter.ping_results

\* C6: on a catalog of two or more hosts, --sping alone probes one host per
\* send (sequential strategy) and --ping alone probes all hosts of the
\* catalog in every send (simultaneous strategy).
C6_FlagSelectsStrategy ==
    Len(servers) >= 2 =>
        \A k \in 1..Len(probeLog) :
            /\ (s_ping /\ ~m_ping) => Len(probeLog[k]) = 1
            /\ (m_ping /\ ~s_ping) => Len(probeLog[k]) = Len(servers)

\* C7: the probed servers are the least loaded of the filtered catalog:
\* no server left unprobed has a smaller load than a probed one.
C7_ProbedAreLeastLoaded ==
    (pc \in {"match", "should_sort", "done"} /\ prober = "ok" /\ tries >= 1) =>
        \A i, j \in 1..Len(before) :
            (before[i].domain \in ProbedDomains /\ before[j].domain \notin ProbedDomains)
                => before[i].load <= before[j].load

\* Sum of f over the finite set S.
RECURSIVE SumOver(_, _)
SumOver(S, f) ==
    IF S = {} THEN 0
    ELSE LET x == CHOOSE y \in S : TRUE IN f[x] + SumOver(S \ {x}, f)

\* Sum, in whole microseconds, of the latencies send returned for a host.
MicrosOf(host) == SumOver(Latencies, [l \in Latencies |-> answers[host][l] * as_micros(l)])

\* Every send of the pass returned an answer for every host.
AllAnswered == \A d \in DOMAIN answers : answers[d][Dropped] = 0

\* C13: in the batched strategy with tries >= 1, when every host answers in
\* every round, the value stored for a host is the integer mean of its
\* per-round latencies in microseconds, floor(sum / tries), and the
\* PingSorter leaves a host of smaller mean before a host of larger mean.
C13_BatchedStoresIntegerMean ==
    (Returned("ping_single") /\ prober = "ok" /\ tries >= 1 /\ AllAnswered) =>
        /\ DOMAIN lastSorter.ping_results = DomainsOf(servers)
        /\ \A d \in DomainsOf(servers) :
              /\ SumOver(Latencies, answers[d]) = tries
              /\ lastSorter.ping_results[d] = MicrosOf(d) \div tries
        /\ pc \in {"should_sort", "done"} =>
              \A i, j \in 1..Len(servers) :
                  MicrosOf(servers[i].domain) \div tries < MicrosOf(servers[j].domain) \div tries
                      => i < j

\* C13 witness: two rounds, latencies [10, 15] and [15, 15] microseconds:
\* the map is {12, 15} and the host of mean 12, second in the catalog
\* before the pass, is first after it.
C13_Witness ==
    /\ pc = "done" /\ s_ping /\ prober = "ok" /\ tries = 2 /\ Len(servers) = 2
    /\ AllAnswered
    /\ answers[servers[1].domain][10000] = 1 /\ answers[servers[1].domain][15500] = 1
    /\ answers[servers[2].domain][15500] = 2
    /\ lastSorter.ping_results[servers[1].domain] = 12
    /\ lastSorter.ping_results[servers[2].domain] = 15
    /\ before[2] = servers[1]

\* C14: in the sequential strategy every send targets exactly one host, the
\* hosts are taken in catalog order, and a host receives all of its `tries`
\* probes and has its mean stored before the next host is probed.
C14_SequentialOneHostAtATime ==
    (pc = "ping_multi" /\ status = "running") =>
        /\ Len(probeLog) = idx * tries + round
        /\ \A k \in 1..Len(probeLog) :
              probeLog[k] = <<servers[((k - 1) \div tries) + 1].domain>>
        /\ DOMAIN ping_results = {servers[i].domain : i \in 1..idx}
        /\ round <= tries

\* C14 witness: two tries; the first host has had both probes and has its
\* mean in the map, the second host has had one probe.
C14_Witness ==
    /\ pc = "ping_multi" /\ tries = 2 /\ Len(servers) = 2 /\ idx = 1 /\ round = 1
    /\ probeLog = <<<<servers[1].domain>>, <<servers[1].domain>>, <<servers[2].domain>>>>
    /\ DOMAIN ping_results = {servers[1].domain}

\* C9: when send reports that probing cannot proceed, either constructor
\* returns Err and no PingSorter, whatever had been measured before.
C9_SendFailureIsErr ==
    fault.kind = "send" => (prober = "err" /\ lastSorter = NoSorter /\ ping_results = NoMap)

\* C9 witness: send failed in ping_single after a round that succeeded.
C9_Witness ==
    /\ fault.kind = "send" /\ s_ping /\ round >= 1 /\ Len(servers) >= 1
    /\ prober = "err"

\* The codes listed by Region::from_str_options.
ListedCodes == {Region_from_str_options[k][1] : k \in 1..Len(Region_from_str_options)}

\* C18: looking up a code listed by Region::from_str_options succeeds and
\* the region found has a non-empty country list; the same holds for the
\* codes of CountriesFilter::available_regions and from_region.
C18_ListedCodesAreFound ==
    /\ (looked.by = "Region::from_str" /\ String(token) \in ListedCodes) =>
          (looked.found /\ looked.region # "None" /\ Len(looked.countries) > 0)
    /\ (/\ looked.by = "CountriesFilter::from_region"
        /\ String(token) \in from_iter(CountriesFilter_available_regions)) =>
          (looked.found /\ looked.filter.countries # {})

\* C18 witness: "6E" was looked up and gave the six countries of SixEyes.
C18_Witness ==
    /\ looked.by = "Region::from_str" /\ token = <<"6", "E">>
    /\ looked.region = "SixEyes" /\ Len(looked.countries) = 6

\* The token spells a listed code, in any case.
SpellsListedCode == String(to_uppercase(token)) \in ListedCodes

\* C19, as stated: Region::from_str on a lowercase or mixed-case spelling of
\* a listed code returns the region, and the country list, that the
\* uppercase spelling returns.
C19_LookupIgnoresCase ==
    (looked.by = "Region::from_str" /\ SpellsListedCode) =>
        /\ looked.region = Region_from_str(String(to_uppercase(token)))
        /\ looked.countries = Region_countries(Region_from_str(String(to_uppercase(token))))

\* C19, amended: Region::from_str matches the listed codes as written, in
\* uppercase: any other spelling of a listed code gives None.  A caller that
\* uppercases the str first, as parse_filters of main.rs does, finds the
\* region whatever the case; the deprecated from_region lowercases its
\* argument and finds the European Union whatever the case.
C19_LookupIsUppercaseOnly ==
    /\ looked.by = "Region::from_str" =>
          (looked.found <=> String(token) \in ListedCodes)
    /\ (looked.by = "Region::from_str(to_uppercase)" /\ SpellsListedCode) =>
          (looked.found /\ Len(looked.countries) > 0)
    /\ (/\ looked.by = "CountriesFilter::from_region"
        /\ String(to_uppercase(token)) \in from_iter(CountriesFilter_available_regions)) =>
          (looked.found /\ looked.filter.countries = from_iter(EuropeanUnion))

\* C19 witness: "benelux" was looked up as written and gave None.
C19_Witness ==
    /\ looked.by = "Region::from_str" /\ token = <<"b", "e", "n", "e", "l", "u", "x">>
    /\ ~looked.found /\ looked.region = "None"

\* C19 witness, second half: "Benelux", uppercased first, gave the region.
C19_WitnessUppercased ==
    /\ looked.by = "Region::from_str(to_uppercase)"
    /\ token = <<"B", "e", "n", "e", "l", "u", "x">>
    /\ looked.region = "Benelux" /\ from_iter(looked.countries) = {"BE", "LU", "NL"}

\* The data parse_filters was given.
ParsedData == IF pc \in {"filtered", "cli_help_filtered"} THEN before ELSE servers

\* The static category and protocol names parse_filters of main.rs matches
\* ("wg_udp" is a name of cli_help::parse_static_filter alone).
StaticNames == DOMAIN StaticFields

\* The token is no static name and its uppercase form is neither a country
\* code of the data nor a region code.
Unrecognized(filter) ==
    /\ String(filter) \notin StaticNames
    /\ String(to_uppercase(filter)) \notin flags(ParsedData)
    /\ String(to_uppercase(filter)) \notin ListedCodes

UnrecognizedAt == {k \in 1..Len(cli_filters) : Unrecognized(cli_filters[k])}

FirstUnrecognized == CHOOSE k \in UnrecognizedAt : \A l \in UnrecognizedAt : k <= l

\* C15: an unrecognized filter token is never silently ignored: no run
\* whose command line holds one gets as far as applying filters; once the
\* parser has taken the token the run has stopped, with an error that names
\* the token, and the data is as it was.
C15_UnrecognizedTokenStopsTheRun ==
    UnrecognizedAt # {} =>
        /\ pc \notin {"apply_filters", "filtered", "cli_help_apply_filters",
                      "cli_help_filtered"}
        /\ cursor >= FirstUnrecognized =>
              /\ status = "exit"
              /\ stderr = String(cli_filters[FirstUnrecognized])
              /\ cursor = FirstUnrecognized

\* The tokens parse_filters of main.rs has taken that are static names.
StaticTaken == {k \in 1..Len(parseLog) : String(cli_filters[k]) \in StaticNames}

\* C20: parse_filters of main.rs takes a token that is a static category or
\* protocol name as that static filter and never as a country or a region,
\* whatever the flags of the data: the country filter holds what the other
\* tokens put there, and the filtered data satisfies the static filter.
C20_StaticNamesComeFirst ==
    /\ \A k \in StaticTaken :
          /\ parseLog[k] = "static"
          /\ parsed_filters.on[StaticFields[String(cli_filters[k])]]
    /\ (parsed_filters.country_filter = None) <=>
          (\A k \in 1..Len(parseLog) : parseLog[k] \in {"static", "unknown"})
    /\ (StaticTaken = 1..Len(parseLog)) => parsed_filters.country_filter = None
    /\ pc = "filtered" =>
          \A k \in StaticTaken : \A i \in 1..Len(servers) :
              Filter_filter(parse_static_filter(String(cli_filters[k])).filter, servers[i])

\* C20 witness: "tor" alone, on data with a server flagged TOR and a server
\* of the category Tor: no country filter; the Tor server is what is left.
C20_Witness ==
    /\ pc = "filtered" /\ cli_filters = << <<"t", "o", "r">> >>
    /\ "TOR" \in flags(before)
    /\ parseLog = <<"static">> /\ parsed_filters.country_filter = None
    /\ parsed_filters.on["tor_filter"]
    /\ DomainsOf(servers) = {"us3"}

\* C21: a CountryFilter built from any spelling of a country code keeps a
\* record iff its flag equals the uppercase code: every record left has
\* that flag, and every record with that flag is left.
C21_CountryFilterIgnoresCase ==
    (op = "filter" /\ token # <<>>) =>
        /\ \A i \in 1..Len(before) :
              KeptIn(servers, before, i) <=> before[i].flag = String(to_uppercase(token))
        /\ \A k \in 1..Len(servers) : servers[k].flag = String(to_uppercase(token))

\* C21 witness: the filter built from "Sg" kept sg1 alone of [us1, sg1, be1].
C21_Witness ==
    /\ op = "filter" /\ token = <<"S", "g">>
    /\ Len(before) = 3 /\ DomainsOf(before) = {"us1", "sg1", "be1"}
    /\ Len(servers) = 1 /\ servers[1].domain = "sg1" /\ servers[1].flag = "SG"

\* C22: a CountriesFilter built from the empty set accepts no server:
\* Servers::filter with it leaves the catalog empty, whatever the catalog
\* was, and perfect_server() on the result returns None.
C22_EmptyCountrySetDrains ==
    (lastFilter.kind = "CountriesFilter" /\ lastFilter.countries = {}) =>
        /\ op = "filter" => servers = <<>>
        /\ op = "perfect_server" => (perfect = None /\ status = "running")

\* C22 witness: a catalog of three was drained by the empty set and
\* perfect_server then returned None.
C22_Witness ==
    /\ op = "perfect_server" /\ lastFilter = CountriesFilterOf({})
    /\ ops = 2 /\ perfect = None /\ servers = <<>>

\* C22 witness, first half: the empty set drained a catalog of three.
C22_WitnessDrained ==
    /\ op = "filter" /\ lastFilter = CountriesFilterOf({})
    /\ Len(before) = 3 /\ servers = <<>>

\* C23: perfect_server() returns Some(copy of the record at index 0) of a
\* non-empty catalog and None of an empty one, and leaves the catalog as it
\* was.
C23_PerfectServerIsIndexZero ==
    op = "perfect_server" =>
        /\ servers = before
        /\ Len(servers) = 0 => perfect = None
        /\ Len(servers) > 0 => perfect = Some(servers[1])

\* C23 witness: perfect_server on [us2, us1] returned us2, the record at
\* index 0, and the catalog still holds both records.
C23_Witness ==
    /\ op = "perfect_server" /\ Len(servers) = 2
    /\ servers[1].domain = "us2" /\ servers[2].domain = "us1"
    /\ perfect = Some(servers[1]) /\ perfect # Some(servers[2])

\* C23 witness, empty catalog: perfect_server returned None.
C23_WitnessNone ==
    /\ op = "perfect_server" /\ servers = <<>> /\ perfect = None

\* C24: no catalog operation (filter, sort, cut, benchmark_ping) changes a
\* field of a record: every record of the catalog after the operation is
\* field for field a record of the catalog before it.
C24_RecordsAreNeverMutated ==
    op \in {"filter", "sort", "cut", "benchmark_ping"} =>
        \A k \in 1..Len(servers) : \E i \in 1..Len(before) : servers[k] = before[i]

\* C25: applying a list of filters by one Servers::filter call per filter
\* (cli_help::apply_filters) leaves the catalog that a single Servers::filter
\* with the CombinedFilter built from the same list leaves.
C25_SequentialEqualsCombined ==
    pc = "cli_help_filtered" =>
        servers = Servers_filter(before, CombinedFilterOf(filters_to_apply))

\* C26: filtering is idempotent: a Servers::filter with the filter that the
\* Servers::filter just before it was given leaves the catalog as it is,
\* same records in the same order.
C26_FilterIsIdempotent ==
    [][(op = "filter" /\ op' = "filter" /\ lastFilter' = lastFilter) => servers' = servers]_vars

\* C26 witness: the whitelist {us1} was applied a second time to what it
\* had left, [us1], and left [us1].
C26_Witness ==
    /\ op = "filter" /\ ops = 2 /\ lastFilter = WhiteListFilterOf({"us1"})
    /\ Len(servers) = 1 /\ servers[1].domain = "us1" /\ before = servers

\* A run of `sort` of main.rs that has ended: it returned, or the process
\* was ended inside it.
PassEnded == pc = "done" \/ status \in {"panic", "exit"}

\* C27: every ranking pass of the CLI performs exactly one sort of the
\* catalog: the latency sort iff a ping flag was given and the prober
\* succeeded, the load sort otherwise; the catalog is cut to AMOUNT before
\* the first probe, no probe follows a sort, and the load sort never
\* follows a latency sort.
C27_ExactlyOneSortPerPass ==
    /\ Len(sortLog) <= 1
    /\ PassEnded =>
          sortLog = IF (s_ping \/ m_ping) /\ prober = "ok"
                    THEN <<"PingSorter">> ELSE <<"LoadSorter">>
    /\ probeLog # <<>> =>
          /\ Len(servers) <= amount
          /\ DomainsOf(servers) = DomainsOf(Servers_cut(before, amount))
          /\ ProbedDomains \subseteq DomainsOf(Servers_cut(before, amount))
    /\ sortLog # <<>> => pc \in {"should_sort", "done"}
    /\ sortLog = <<"PingSorter">> => (prober = "ok" /\ ~should_sort)
    /\ pc \in {"sort", "ping_single", "ping_multi", "match"} => sortLog = <<>>

\* C28: for every tries >= 0 and every catalog, PingSorter::ping_single and
\* PingSorter::ping_multi return Ok or Err and the sort that follows them
\* in the pass returns: no step of the pass aborts the process.
C28_PassNeverPanics ==
    (s_ping \/ m_ping) => status # "panic"

\* C29: when ping_multi has returned Ok with tries >= 1, the keys of its
\* map are exactly the domains of the catalog it probed, and the sort of
\* that catalog with the PingSorter does not fail on a missing domain.
C29_SequentialMapCoversCatalog ==
    (Returned("ping_multi") /\ prober = "ok" /\ tries >= 1) =>
        /\ lastSorter.kind = "PingSorter"
        /\ DOMAIN lastSorter.ping_results = DomainsOf(servers)
        /\ ~sort_panics(servers, lastSorter)
        /\ status = "running"
        /\ pc = "done" => sortLog = <<"PingSorter">>

\* C29 witness: --ping with two tries on two servers: both domains are keys
\* of the map and the latency sort has run.
C29_Witness ==
    /\ pc = "done" /\ m_ping /\ ~s_ping /\ prober = "ok" /\ tries = 2
    /\ Len(servers) = 2 /\ DOMAIN lastSorter.ping_results = DomainsOf(servers)
    /\ sortLog = <<"PingSorter">> /\ status = "running"

\* The tokens parse_filters of main.rs took as a country or as a region, and
\* the countries each of them names.
CountryTokens == {k \in 1..Len(parseLog) : parseLog[k] \in {"country", "region"}}

NamedBy(k) ==
    IF parseLog[k] = "country" THEN {String(to_uppercase(cli_filters[k]))}
    ELSE from_iter(Region_countries(Region_from_str(String(to_uppercase(cli_filters[k])))))

NamedCountries == UNION {NamedBy(k) : k \in CountryTokens}

\* C30: in one run of the CLI the country and region tokens make one set of
\* countries, the union of what each names, and a record passes the country
\* stage iff its flag is in that set; a record is left iff it passes the
\* country stage (when there is one) and every category and protocol
\* filter named on the command line.
C30_CountriesUnionStaticsIntersect ==
    pc \in {"apply_filters", "filtered"} =>
        /\ parsed_filters.country_filter =
              IF CountryTokens = {} THEN None ELSE Some(NamedCountries)
        /\ pc = "filtered" =>
              \A i \in 1..Len(before) :
                  KeptIn(servers, before, i) <=>
                      /\ CountryTokens # {} => before[i].flag \in NamedCountries
                      /\ \A k \in StaticTaken :
                            Filter_filter(parse_static_filter(String(cli_filters[k])).filter,
                                          before[i])

\* C30 witness: "Be" and "5E" on [us1, be1, sg1]: the set is Belgium and the
\* Five Eyes together, and us1 and be1 are left.
C30_Witness ==
    /\ pc = "filtered" /\ cli_filters = << <<"B", "e">>, <<"5", "E">> >>
    /\ parsed_filters.country_filter = Some({"BE", "AU", "CA", "NZ", "GB", "US"})
    /\ DomainsOf(before) = {"us1", "be1", "sg1"} /\ DomainsOf(servers) = {"us1", "be1"}

\* C30 witness, conjunction: "us" and "tor": of the two US servers left by
\* the country stage, the one in the category Tor is left.
C30_WitnessConjunction ==
    /\ pc = "filtered" /\ cli_filters = << <<"u", "s">>, <<"t", "o", "r">> >>
    /\ DomainsOf(before) = {"tor1", "us3", "be1"} /\ DomainsOf(servers) = {"us3"}

====
